---- MODULE Spec2Model ----
(***************************************************************************)
(* Model of the Decodo usage bot (src/bot.py): the proxyType candidate     *)
(* list, the candidate-fallback query loops of the /usage and /chart       *)
(* handlers, and the billing-cycle date arithmetic anchored to a           *)
(* day-of-month.                                                           *)
(*                                                                         *)
(* Python values are represented as follows.                               *)
(*   str            a TLA+ string; characters are one-character strings    *)
(*   Optional[T]    a sequence: <<>> is None, <<v>> is the value v         *)
(*   dt.date        a record [year, month, day]                            *)
(*   dt.datetime    a record [date, sod] (sod: second of the day, UTC)     *)
(***************************************************************************)
EXTENDS Integers, Sequences, FiniteSets, TLC

None == <<>>
Some(v) == <<v>>
Min(a, b) == IF a <= b THEN a ELSE b

(***************************************************************************)
(* Strings: the str methods the source uses.                               *)
(***************************************************************************)
Char(s, i) == SubSeq(s, i, i)

\* s[:n]
Prefix(s, n) == SubSeq(s, 1, Min(n, Len(s)))

\* s[n:] (n counted from 0 as in Python)
Suffix(s, n) == IF n >= Len(s) THEN "" ELSE SubSeq(s, n + 1, Len(s))

RECURSIVE LStrip(_)
LStrip(s) == IF s # "" /\ Head(s) = " " THEN LStrip(Tail(s)) ELSE s

RECURSIVE RStrip(_)
RStrip(s) ==
    IF s # "" /\ Char(s, Len(s)) = " " THEN RStrip(SubSeq(s, 1, Len(s) - 1)) ELSE s

\* str.strip()
Strip(s) == RStrip(LStrip(s))

UpperChars == "ABCDEFGHIJKLMNOPQRSTUVWXYZ"
LowerChars == "abcdefghijklmnopqrstuvwxyz"

LowerChar(c) ==
    IF \E i \in 1..Len(UpperChars) : Char(UpperChars, i) = c
    THEN Char(LowerChars, CHOOSE i \in 1..Len(UpperChars) : Char(UpperChars, i) = c)
    ELSE c

\* str.lower()
RECURSIVE Lower(_)
Lower(s) == IF s = "" THEN "" ELSE LowerChar(Head(s)) \o Lower(Tail(s))

\* str.replace(a, b) for a one-character a
RECURSIVE Replace(_, _, _)
Replace(s, a, b) ==
    IF s = "" THEN ""
    ELSE (IF Head(s) = a THEN b ELSE Head(s)) \o Replace(Tail(s), a, b)

\* The index of the first occurrence of the character c in s, 0 when absent.
FindChar(s, c) ==
    IF \E i \in 1..Len(s) : Char(s, i) = c
    THEN CHOOSE i \in 1..Len(s) : Char(s, i) = c /\ \A j \in 1..(i - 1) : Char(s, j) # c
    ELSE 0

\* str.split(sep) for a one-character sep
RECURSIVE Split(_, _)
Split(s, sep) ==
    LET i == FindChar(s, sep)
    IN  IF i = 0 THEN <<s>>
        ELSE <<SubSeq(s, 1, i - 1)>> \o Split(Suffix(s, i), sep)

DigitChars == "0123456789"
IsDigit(c) == \E i \in 1..Len(DigitChars) : Char(DigitChars, i) = c
DigitVal(c) == (CHOOSE i \in 1..Len(DigitChars) : Char(DigitChars, i) = c) - 1
AllDigits(s) == s # "" /\ \A i \in 1..Len(s) : IsDigit(Char(s, i))

RECURSIVE IntOf(_)
IntOf(s) ==
    IF s = "" THEN 0
    ELSE 10 * IntOf(SubSeq(s, 1, Len(s) - 1)) + DigitVal(Char(s, Len(s)))

\* The decimal digits of n, zero-padded to width w (strftime's %Y, %m, %d, %H, %M, %S).
RECURSIVE Pad(_, _)
Pad(n, w) == IF w = 0 THEN "" ELSE Pad(n \div 10, w - 1) \o Char(DigitChars, (n % 10) + 1)

(***************************************************************************)
(* Dates: dt.date, calendar.monthrange, strptime, strftime.                *)
(***************************************************************************)
Date(y, m, d) == [year |-> y, month |-> m, day |-> d]
DateTime(d, s) == [date |-> d, sod |-> s]

IsLeap(y) == (y % 4 = 0 /\ y % 100 # 0) \/ y % 400 = 0

\* def _last_day_of_month(year, month): calendar.monthrange(year, month)[1]
last_day_of_month(year, month) ==
    IF month = 2 THEN (IF IsLeap(year) THEN 29 ELSE 28)
    ELSE IF month \in {4, 6, 9, 11} THEN 30 ELSE 31

\* Comparison of dt.date values.
DateLT(a, b) ==
    \/ a.year < b.year
    \/ a.year = b.year /\ a.month < b.month
    \/ a.year = b.year /\ a.month = b.month /\ a.day < b.day
DateLE(a, b) == a = b \/ DateLT(a, b)

\* date.strftime('%Y-%m-%d')
FormatDate(d) == Pad(d.year, 4) \o "-" \o Pad(d.month, 2) \o "-" \o Pad(d.day, 2)

\* datetime.strftime('%Y-%m-%d %H:%M:%S')
FormatDateTime(t) ==
    FormatDate(t.date) \o " " \o Pad(t.sod \div 3600, 2) \o ":"
        \o Pad((t.sod % 3600) \div 60, 2) \o ":" \o Pad(t.sod % 60, 2)

\* A strptime numeric field of one or two digits with a value in lo..hi.
Field2(s, lo, hi) == Len(s) \in {1, 2} /\ AllDigits(s) /\ IntOf(s) \in lo..hi

\* dt.date(y, m, d): None where the constructor raises ValueError.
MakeDate(y, m, d) ==
    IF y >= 1 /\ m \in 1..12 /\ d >= 1 /\ d <= last_day_of_month(y, m)
    THEN Some(Date(y, m, d)) ELSE None

\* The date of the fields %Y, %m, %d; None where they do not match.
DateOfFields(f) ==
    IF Len(f) = 3
    THEN IF Len(f[1]) = 4 /\ AllDigits(f[1]) /\ Field2(f[2], 1, 12) /\ Field2(f[3], 1, 31)
         THEN MakeDate(IntOf(f[1]), IntOf(f[2]), IntOf(f[3]))
         ELSE None
    ELSE None

\* dt.datetime.strptime(s, "%Y-%m-%d").date(): None where strptime raises.
StrpDate(s) == DateOfFields(Split(s, "-"))

\* Whether t holds the fields %H, %M, %S.
IsTimeOfFields(t) ==
    Len(t) = 3 /\ Field2(t[1], 0, 23) /\ Field2(t[2], 0, 59) /\ Field2(t[3], 0, 61)

\* The date of the two space-separated parts "%Y-%m-%d" and "%H:%M:%S".
DateOfParts(p) ==
    IF Len(p) = 2
    THEN IF IsTimeOfFields(Split(p[2], ":")) THEN StrpDate(p[1]) ELSE None
    ELSE None

\* dt.datetime.strptime(s, "%Y-%m-%d %H:%M:%S").date(): None where strptime raises.
StrpDateTime(s) == DateOfParts(Split(s, " "))

\* "try: return a / except Exception: pass / try: return b"
FirstParsed(a, b) == IF a # None THEN a ELSE b

\* _parse_date_guess after "s = s.strip()".
ParseStripped(s) ==
    IF s = "" THEN None
    ELSE FirstParsed(StrpDateTime(Split(Replace(Replace(s, "T", " "), "Z", ""), ".")[1]),
                     StrpDate(Prefix(s, 10)))

\* def _parse_date_guess(s)
parse_date_guess(s) == ParseStripped(Strip(s))

(***************************************************************************)
(* Billing-cycle arithmetic.                                               *)
(***************************************************************************)
\* The previous-month branch of _anchored_period_start.
PreviousMonthStart(anchor_day, today) ==
    LET py == IF today.month = 1 THEN today.year - 1 ELSE today.year
        pm == IF today.month = 1 THEN 12 ELSE today.month - 1
    IN  Date(py, pm, Min(anchor_day, last_day_of_month(py, pm)))

\* The candidate of _anchored_period_start in today's month.
CurrentMonthCandidate(anchor_day, today) ==
    Date(today.year, today.month,
         Min(anchor_day, last_day_of_month(today.year, today.month)))

\* PeriodStart without the clamp to the previous month's length.
PeriodStartUnclampedPrev(anchor, today) ==
    IF anchor = None THEN None
    ELSE IF DateLE(CurrentMonthCandidate(anchor[1].day, today), today)
         THEN Some(CurrentMonthCandidate(anchor[1].day, today))
         ELSE Some(Date(IF today.month = 1 THEN today.year - 1 ELSE today.year,
                        IF today.month = 1 THEN 12 ELSE today.month - 1,
                        anchor[1].day))

\* PeriodStart with "today > candidate" in place of "today >= candidate".
PeriodStartStrict(anchor, today) ==
    IF anchor = None THEN None
    ELSE IF DateLT(CurrentMonthCandidate(anchor[1].day, today), today)
         THEN Some(CurrentMonthCandidate(anchor[1].day, today))
         ELSE Some(PreviousMonthStart(anchor[1].day, today))

\* PeriodStart never going back to the previous month.
PeriodStartCurrentMonthOnly(anchor, today) ==
    IF anchor = None THEN None
    ELSE Some(CurrentMonthCandidate(anchor[1].day, today))

\* _anchored_period_start once anchor = _parse_date_guess(anchor_date_str) and
\* today = now_utc.date() are known.
PeriodStart(anchor, today) ==
    IF anchor = None THEN None
    ELSE IF DateLE(CurrentMonthCandidate(anchor[1].day, today), today)
         THEN Some(CurrentMonthCandidate(anchor[1].day, today))
         ELSE Some(PreviousMonthStart(anchor[1].day, today))

\* def _anchored_period_start(anchor_date_str, now_utc)
anchored_period_start(anchor_date_str, now_utc) ==
    PeriodStart(parse_date_guess(anchor_date_str), now_utc.date)

\* The anchor day clamped into the month after start's.
NextMonthBoundary(anchor_day, start) ==
    LET year == IF start.month = 12 THEN start.year + 1 ELSE start.year
        month == IF start.month = 12 THEN 1 ELSE start.month + 1
    IN  Date(year, month, Min(anchor_day, last_day_of_month(year, month)))

\* PeriodEnd taking the day from start instead of from the anchor.
PeriodEndFromStartDay(anchor, start) ==
    IF anchor = None THEN None ELSE Some(NextMonthBoundary(start.day, start))

\* _anchored_period_end once anchor = _parse_date_guess(anchor_date_str) is known.
PeriodEnd(anchor, start) ==
    IF anchor = None THEN None ELSE Some(NextMonthBoundary(anchor[1].day, start))

\* def _anchored_period_end(anchor_date_str, start)
anchored_period_end(anchor_date_str, start) ==
    PeriodEnd(parse_date_guess(anchor_date_str), start)

(***************************************************************************)
(* The proxyType candidate list.                                           *)
(***************************************************************************)
\* Python truthiness of an Optional[str]: neither None nor "".
Truthy(v) == v # None /\ v[1] # ""

Range(seq) == { seq[i] : i \in 1..Len(seq) }

\* The dict "mapping" of _map_service_to_proxy_type, as <<key, value>> pairs.
mapping ==
    << <<"residential", "residential_proxies">>,
       <<"residential_proxies", "residential_proxies">>,
       <<"mobile", "mobile_proxies">>,
       <<"mobile_proxies", "mobile_proxies">>,
       <<"datacenter", "datacenter_proxies">>,
       <<"datacenter_proxies", "datacenter_proxies">>,
       <<"rtc_universal_proxies", "rtc_universal_proxies">>,
       <<"rtc_universal_core_proxies", "rtc_universal_core_proxies">>,
       <<"site_unblocker", "rtc_site_unblocker_proxies">>,
       <<"rtc_site_unblocker_proxies", "rtc_site_unblocker_proxies">>,
       <<"rtc_site_unblocker_req_proxies", "rtc_site_unblocker_req_proxies">> >>

\* mapping.get(v, v)
MappingGet(v) ==
    IF \E i \in 1..Len(mapping) : mapping[i][1] = v
    THEN mapping[CHOOSE i \in 1..Len(mapping) : mapping[i][1] = v][2]
    ELSE v

\* def _map_service_to_proxy_type(value)
map_service_to_proxy_type(value) ==
    IF ~Truthy(value) THEN None
    ELSE Some(MappingGet(Lower(Strip(value[1]))))

\* The tuple of fallback values _build_proxy_type_candidates iterates over.
FallbackProxyTypes ==
    << "mobile_proxies", "residential_proxies", "rtc_universal_proxies",
       "rtc_universal_core_proxies", "datacenter_proxies",
       "rtc_site_unblocker_proxies", "rtc_site_unblocker_req_proxies" >>

\* The fallback values as Optional[str] candidates, those equal to first left out.
RECURSIVE FallbackExcept(_, _)
FallbackExcept(vs, first) ==
    IF vs = <<>> THEN <<>>
    ELSE (IF Some(Head(vs)) # first THEN <<Some(Head(vs))>> ELSE <<>>)
            \o FallbackExcept(Tail(vs), first)

\* _build_proxy_type_candidates without the "if v != first" filter.
build_proxy_type_candidates_unfiltered(env_value) ==
    LET first == map_service_to_proxy_type(env_value)
        c1 == IF Truthy(first) THEN <<first>> ELSE <<>>
        c2 == IF None \notin Range(c1) THEN Append(c1, None) ELSE c1
    IN  c2 \o FallbackExcept(FallbackProxyTypes, Some(""))

\* def _build_proxy_type_candidates(env_value)
build_proxy_type_candidates(env_value) ==
    LET first == map_service_to_proxy_type(env_value)
        c1 == IF Truthy(first) /\ first \notin Range(<<>>) THEN <<first>> ELSE <<>>
        c2 == IF None \notin Range(c1) THEN Append(c1, None) ELSE c1
    IN  c2 \o FallbackExcept(FallbackProxyTypes, first)

\* Settings.decodo_service_type = os.getenv("DECODO_SERVICE_TYPE", "mobile_proxies")
SettingsServiceType(env_service) ==
    IF env_service = None THEN Some("mobile_proxies") ELSE env_service

(***************************************************************************)
(* Settings, the query window, the report label and the chart span.        *)
(***************************************************************************)
\* os.getenv(name) or None
OrNone(v) == IF Truthy(v) THEN v ELSE None

\* The UTC offset, in hours, of the zone ZoneInfo(tz_name) names; an unset
\* TIMEZONE/TZ gives "UTC".
TzOffsetHours(tz_name) == IF tz_name = "Europe/Moscow" THEN 3 ELSE 0

\* class Settings: __init__ reads the environment.
Settings(e) ==
    [ decodo_service_type     |-> SettingsServiceType(e.service),
      subscription_start_date |-> OrNone(e.start),
      subscription_end_date   |-> OrNone(e.end),
      timezone                |-> TzOffsetHours(e.tz) ]

\* Comparison of dt.datetime values.
DateTimeLE(a, b) == DateLT(a.date, b.date) \/ (a.date = b.date /\ a.sod <= b.sod)
MinDateTime(a, b) == IF DateTimeLE(a, b) THEN a ELSE b

\* The calendar day after d.
NextDay(d) ==
    IF d.day < last_day_of_month(d.year, d.month) THEN Date(d.year, d.month, d.day + 1)
    ELSE IF d.month < 12 THEN Date(d.year, d.month + 1, 1)
    ELSE Date(d.year + 1, 1, 1)

\* dt.datetime.now(settings.timezone).date() when the UTC clock reads t.
LocalDate(t, tz) == IF t.sod + tz * 3600 >= 86400 THEN NextDay(t.date) ELSE t.date

\* date.replace(day=1)
FirstOfMonth(d) == Date(d.year, d.month, 1)

\* "len(s) >= n and s[4] == '-' and s[7] == '-'"
DateShaped(s) == Char(s, 5) = "-" /\ Char(s, 8) = "-"

\* to_ts after "date_str = date_str.strip()".
ToTsStripped(s, end_of_day) ==
    IF Len(s) = 10 /\ DateShaped(s)
    THEN s \o " " \o (IF end_of_day THEN "23:59:59" ELSE "00:00:00")
    ELSE s

\* def to_ts(date_str, end_of_day=False)
to_ts(date_str, end_of_day) == ToTsStripped(Strip(date_str), end_of_day)

\* "return s[:10] if len(s) >= 10 and s[4] == '-' and s[7] == '-' else s"
DateOnly(s) == IF Len(s) >= 10 /\ DateShaped(s) THEN Prefix(s, 10) ELSE s

\* def d_only(s)
d_only(s) == DateOnly(Split(Replace(Replace(s, "T", " "), "Z", ""), ".")[1])

\* Which of the three branches "if env_from / elif env_to / else" a handler takes.
WindowMode(st) ==
    IF Truthy(st.subscription_start_date) THEN "anchored"
    ELSE IF Truthy(st.subscription_end_date) THEN "fixed_end"
    ELSE "month"

\* "end_d = _anchored_period_end(env_from, start_d) if start_d else None"
CycleEndOf(env_from, start_d) ==
    IF start_d # None THEN anchored_period_end(env_from, start_d[1]) ELSE None

\* "from_date = f"{start_d.strftime('%Y-%m-%d')} 00:00:00" if start_d else to_ts(env_from)"
AnchoredFromDate(env_from, start_d) ==
    IF start_d # None THEN FormatDate(start_d[1]) \o " 00:00:00" ELSE to_ts(env_from, FALSE)

\* AnchoredToDate ending the window at the cycle end whatever "now" is.
AnchoredToDateCycleEnd(now, end_d) ==
    FormatDateTime(IF end_d # None THEN DateTime(end_d[1], 86399) ELSE now)

\* "to_dt = min(now, end_dt) if end_d else now"; to_date = to_dt.strftime(...)
AnchoredToDate(now, end_d) ==
    FormatDateTime(IF end_d # None THEN MinDateTime(now, DateTime(end_d[1], 86399)) ELSE now)

\* The window of the anchored branch once start_d is known.
AnchoredWindowOf(env_from, now, start_d) ==
    << Some(AnchoredFromDate(env_from, start_d)),
       Some(AnchoredToDate(now, CycleEndOf(env_from, start_d))) >>

\* The window of the anchored branch: <<from_date, to_date>>.
AnchoredWindow(env_from, now) ==
    AnchoredWindowOf(env_from, now, anchored_period_start(env_from, now))

\* The window of the fixed-end branch.
FixedEndWindow(env_to) == <<None, Some(to_ts(env_to, TRUE))>>

\* The window of the current-month branch (also DecodoClient.get_current_month_usage).
CurrentMonthWindow(now) ==
    <<Some(FormatDateTime(DateTime(FirstOfMonth(now.date), 0))), Some(FormatDateTime(now))>>

\* QueryWindow once the branch is known.
QueryWindowIn(mode, st, now) ==
    IF mode = "anchored" THEN AnchoredWindow(st.subscription_start_date[1], now)
    ELSE IF mode = "fixed_end" THEN FixedEndWindow(st.subscription_end_date[1])
    ELSE CurrentMonthWindow(now)

\* QueryWindow testing env_to before env_from.
QueryWindowEndFirst(st, now) ==
    IF Truthy(st.subscription_end_date) THEN FixedEndWindow(st.subscription_end_date[1])
    ELSE IF Truthy(st.subscription_start_date)
         THEN AnchoredWindow(st.subscription_start_date[1], now)
    ELSE CurrentMonthWindow(now)

\* <<from_date, to_date>> as a handler computes them before its first query.
QueryWindow(st, now) == QueryWindowIn(WindowMode(st), st, now)

\* The JSON body DecodoClient.get_traffic posts.
Payload(type_, from_date, to_date, group_by) ==
    [ proxyType |-> IF Truthy(type_) THEN type_ ELSE None,
      startDate |-> IF Truthy(from_date) THEN from_date ELSE None,
      endDate   |-> IF Truthy(to_date) THEN to_date ELSE None,
      groupBy   |-> IF Truthy(group_by) THEN group_by[1] ELSE "day" ]

\* start_label and end_label joined by an arrow (written " -> ").
Arrow(start_label, end_label) == start_label \o " -> " \o end_label

\* "end_label = end_d.strftime('%Y-%m-%d') if end_d else
\*  dt.datetime.now(settings.timezone).date().strftime('%Y-%m-%d')"
EndLabel(end_d, today_local) ==
    IF end_d # None THEN FormatDate(end_d[1]) ELSE FormatDate(today_local)

\* The label of the anchored branch once start_d is known.
AnchoredLabelOf(anchor, start_d, today_local) ==
    Arrow(IF start_d # None THEN FormatDate(start_d[1]) ELSE anchor,
          EndLabel(CycleEndOf(anchor, start_d), today_local))

\* The label of the current-month branch.
MonthLabel(now_local) == Arrow(FormatDate(FirstOfMonth(now_local)), FormatDate(now_local))

\* UsageLabel once the branch is known.
UsageLabelIn(mode, st, t) ==
    IF mode = "anchored"
    THEN AnchoredLabelOf(st.subscription_start_date[1],
                         anchored_period_start(st.subscription_start_date[1], t),
                         LocalDate(t, st.timezone))
    ELSE IF mode = "fixed_end"
    THEN Arrow(d_only("?"), d_only(Strip(st.subscription_end_date[1])))
    ELSE MonthLabel(LocalDate(t, st.timezone))

\* The label of the usage report when the clock reads t.
UsageLabel(st, t) == UsageLabelIn(WindowMode(st), st, t)

\* a or b or c
FirstDate(a, b, c) == IF a # None THEN a[1] ELSE IF b # None THEN b[1] ELSE c

\* "ed_cycle = _anchored_period_end(..., sd) if sd else None; ed = ed_cycle or today_local"
SpanFrom(anchor, sd, today_local) ==
    <<sd, FirstDate(anchored_period_end(anchor, sd), None, today_local)>>

\* "ed = _parse_date_guess(...) or now(tz).date(); sd = ed.replace(day=1)"
MonthUpTo(ed) == <<FirstOfMonth(ed), ed>>

\* ChartSpan once the branch is known.
ChartSpanIn(mode, st, t) ==
    IF mode = "anchored"
    THEN SpanFrom(st.subscription_start_date[1],
                  FirstDate(anchored_period_start(st.subscription_start_date[1], t),
                            parse_date_guess(st.subscription_start_date[1]),
                            FirstOfMonth(LocalDate(t, st.timezone))),
                  LocalDate(t, st.timezone))
    ELSE IF mode = "fixed_end"
    THEN MonthUpTo(FirstDate(parse_date_guess(st.subscription_end_date[1]), None,
                             LocalDate(t, st.timezone)))
    ELSE MonthUpTo(LocalDate(t, st.timezone))

\* <<sd, ed>> of the chart, the two dates _build_date_span is called with, when the
\* clock reads t.
ChartSpan(st, t) == ChartSpanIn(WindowMode(st), st, t)

(***************************************************************************)
(* The chart's date span and daily series.                                 *)
(***************************************************************************)
\* The days from the first day of year 1 to the first day of year y.
DaysBeforeYear(y) ==
    (y - 1) * 365 + ((y - 1) \div 4) - ((y - 1) \div 100) + ((y - 1) \div 400)

\* The days of year y before month m.
RECURSIVE DaysBeforeMonth(_, _)
DaysBeforeMonth(y, m) ==
    IF m = 1 THEN 0 ELSE DaysBeforeMonth(y, m - 1) + last_day_of_month(y, m - 1)

\* date.toordinal(); (end - start).days is the difference of two of them.
Ordinal(d) == DaysBeforeYear(d.year) + DaysBeforeMonth(d.year, d.month) + d.day

\* [start + dt.timedelta(days=i) for i in range(n)]
RECURSIVE DaysFrom(_, _)
DaysFrom(start, n) == IF n <= 0 THEN <<>> ELSE <<start>> \o DaysFrom(NextDay(start), n - 1)

\* _build_date_span with range(days) in place of range(days + 1).
build_date_span_exclusive(start, end) ==
    IF DateLT(end, start)
    THEN DaysFrom(end, Ordinal(start) - Ordinal(end))
    ELSE DaysFrom(start, Ordinal(end) - Ordinal(start))

\* _build_date_span without "if end < start: start, end = end, start".
build_date_span_unordered(start, end) ==
    DaysFrom(start, Ordinal(end) - Ordinal(start) + 1)

\* def _build_date_span(start, end)
build_date_span(start, end) ==
    IF DateLT(end, start)
    THEN DaysFrom(end, Ordinal(start) - Ordinal(end) + 1)
    ELSE DaysFrom(start, Ordinal(end) - Ordinal(start) + 1)

\* dict.get(key, default) of a dict with string keys (a function on its keys).
DictGet(d, key, default) == IF key \in DOMAIN d THEN d[key] ELSE default

\* GbOfBytes without the max(0.0, ...).
GbOfBytesSigned(b) == b

\* "max(0.0, float(b) / 1_000_000_000.0)", kept in bytes: 1e-9 GB.
GbOfBytes(b) == IF b > 0 THEN b ELSE 0

\* "y_gb = [max(0.0, float(per_day_bytes.get(d.strftime('%Y-%m-%d'), 0)) / 1e9)
\*  for d in days]"
DailySeries(span, per_day_bytes) ==
    [ i \in 1..Len(span) |-> GbOfBytes(DictGet(per_day_bytes, FormatDate(span[i]), 0)) ]

(***************************************************************************)
(* JSON values as r.json() returns them, and Python's conversions of them. *)
(*   None            JNull                                                 *)
(*   True / False    JBool(b)                                              *)
(*   int             JInt(n)                                               *)
(*   float           JFloat(num, exp): num * 10^exp; JNonFinite(name) for  *)
(*                   inf, -inf and nan (the JSON tokens Infinity, NaN and  *)
(*                   numbers such as 1e999)                                *)
(*   str             JStr(s)                                               *)
(*   list            JList(<<value, ...>>)                                 *)
(*   dict            JDict(<< <<key, value>>, ... >>), keys distinct       *)
(***************************************************************************)
JNull == [t |-> "null", v |-> 0]
JBool(b) == [t |-> "bool", v |-> b]
JInt(n) == [t |-> "int", v |-> n]
JFloat(num, exp) == [t |-> "float", v |-> <<num, exp>>]
JNonFinite(name) == [t |-> "nonfinite", v |-> name]
JStr(s) == [t |-> "str", v |-> s]
JList(items) == [t |-> "list", v |-> items]
JDict(pairs) == [t |-> "dict", v |-> pairs]

\* isinstance(x, (int, float)): bool is a subclass of int.
IsNumber(x) == x.t \in { "int", "float", "nonfinite", "bool" }
IsDict(x) == x.t = "dict"
IsList(x) == x.t = "list"

\* bool(x)
JTruthy(x) ==
    CASE x.t = "null" -> FALSE
      [] x.t = "bool" -> x.v
      [] x.t = "int" -> x.v # 0
      [] x.t = "float" -> x.v[1] # 0
      [] x.t = "nonfinite" -> TRUE
      [] x.t = "str" -> x.v # ""
      [] OTHER -> x.v # <<>>

\* "key in d"
Has(d, key) == \E i \in 1..Len(d.v) : d.v[i][1] = key

\* d.get(key): None when the key is absent.
Get(d, key) ==
    IF Has(d, key) THEN d.v[CHOOSE i \in 1..Len(d.v) : d.v[i][1] = key][2] ELSE JNull

\* "a or b"
Or(a, b) == IF JTruthy(a) THEN a ELSE b

\* What a call does: it returns a value or raises an exception.
Return(val) == [raised |-> FALSE, val |-> val]
Raise(exception) == [raised |-> TRUE, val |-> exception]

RECURSIVE Pow10(_)
Pow10(k) == IF k <= 0 THEN 1 ELSE 10 * Pow10(k - 1)

Abs(n) == IF n < 0 THEN 0 - n ELSE n

\* int(num * 10^exp): the value truncated toward zero.
Trunc(num, exp) ==
    IF exp >= 0 THEN num * Pow10(exp)
    ELSE IF num >= 0 THEN num \div Pow10(0 - exp)
    ELSE 0 - (Abs(num) \div Pow10(0 - exp))

\* The number of decimal digits of n.
RECURSIVE NumDigits(_)
NumDigits(n) == IF Abs(n) < 10 THEN 1 ELSE 1 + NumDigits(Abs(n) \div 10)

\* A float too large for a double: float() gives inf.
Overflows(num, exp) == num # 0 /\ NumDigits(num) + exp > 309

\* int(x) of a number x: int(inf) raises OverflowError, int(nan) ValueError.
IntOfNumber(x) ==
    CASE x.t = "int" -> Return(x.v)
      [] x.t = "bool" -> Return(IF x.v THEN 1 ELSE 0)
      [] x.t = "float" -> Return(Trunc(x.v[1], x.v[2]))
      [] OTHER -> Raise(IF x.v = "nan" THEN "ValueError" ELSE "OverflowError")

\* What float(s) gives for a string.
Finite(num, exp) == [kind |-> "finite", num |-> num, exp |-> exp, name |-> ""]
NonFinite(name) == [kind |-> "nonfinite", num |-> 0, exp |-> 0, name |-> name]
Invalid == [kind |-> "invalid", num |-> 0, exp |-> 0, name |-> ""]

\* A run of digits in which single underscores may separate digits.
DigitGroup(s) ==
    /\ s # ""
    /\ \A i \in 1..Len(s) : IsDigit(Char(s, i)) \/ Char(s, i) = "_"
    /\ IsDigit(Head(s)) /\ IsDigit(Char(s, Len(s)))
    /\ \A i \in 1..(Len(s) - 1) : ~(Char(s, i) = "_" /\ Char(s, i + 1) = "_")

\* The digits of a digit group.
Digits(s) == Replace(s, "_", "")

\* The mantissa <<integer part>> or <<integer part, fraction>> scaled by 10^e.
ParseMantissa(m, e, sign) ==
    IF Len(m) = 1
    THEN IF DigitGroup(m[1]) THEN Finite(sign * IntOf(Digits(m[1])), e) ELSE Invalid
    ELSE IF /\ Len(m) = 2
            /\ m[1] = "" \/ DigitGroup(m[1])
            /\ m[2] = "" \/ DigitGroup(m[2])
            /\ ~(m[1] = "" /\ m[2] = "")
         THEN Finite(sign * IntOf(Digits(m[1]) \o Digits(m[2])), e - Len(Digits(m[2])))
         ELSE Invalid

\* The exponent after "e": an optional sign and a digit group.
ExponentOf(s) ==
    IF s # "" /\ Head(s) \in { "+", "-" }
    THEN IF DigitGroup(Tail(s))
         THEN Some((IF Head(s) = "-" THEN 0 - 1 ELSE 1) * IntOf(Digits(Tail(s))))
         ELSE None
    ELSE IF DigitGroup(s) THEN Some(IntOf(Digits(s))) ELSE None

\* The parts of an unsigned literal around "e".
ParseParts(p, exponent, sign) ==
    IF Len(p) = 1 THEN ParseMantissa(Split(p[1], "."), 0, sign)
    ELSE IF Len(p) = 2 /\ exponent # None
         THEN ParseMantissa(Split(p[1], "."), exponent[1], sign)
         ELSE Invalid

ParseUnsigned(s, sign) ==
    IF s \in { "inf", "infinity" } THEN NonFinite(IF sign < 0 THEN "-inf" ELSE "inf")
    ELSE IF s = "nan" THEN NonFinite("nan")
    ELSE ParseParts(Split(s, "e"), ExponentOf(Suffix(s, FindChar(s, "e"))), sign)

ParseSigned(s) ==
    IF s # "" /\ Head(s) \in { "+", "-" }
    THEN ParseUnsigned(Tail(s), IF Head(s) = "-" THEN 0 - 1 ELSE 1)
    ELSE ParseUnsigned(s, 1)

\* float(s) of a string: surrounding blanks and the case of letters do not matter.
ParseFloat(s) == ParseSigned(Lower(Strip(s)))

\* "int(float(...) * 10^k)" inside "try: ... except Exception: return None".
ScaledInt(f, k) ==
    IF f.kind = "finite" /\ ~Overflows(f.num, f.exp + k)
    THEN Some(Trunc(f.num, f.exp + k)) ELSE None

\* s.endswith(suffix)
EndsWith(s, suffix) ==
    Len(s) >= Len(suffix) /\ SubSeq(s, Len(s) - Len(suffix) + 1, Len(s)) = suffix

\* s[:-n]
DropLast(s, n) == IF Len(s) <= n THEN "" ELSE SubSeq(s, 1, Len(s) - n)

\* parse_unit_value reading "1kb" as 1024 bytes.
ParseUnitStringBinary(s) ==
    IF EndsWith(s, "gb") THEN ScaledInt(ParseFloat(DropLast(s, 2)), 9)
    ELSE IF EndsWith(s, "mb") THEN ScaledInt(ParseFloat(DropLast(s, 2)), 6)
    ELSE IF EndsWith(s, "kb")
         THEN IF ScaledInt(ParseFloat(DropLast(s, 2)), 3) = None THEN None
              ELSE Some((ScaledInt(ParseFloat(DropLast(s, 2)), 3)[1] \div 1000) * 1024)
    ELSE IF EndsWith(s, "b") THEN ScaledInt(ParseFloat(DropLast(s, 1)), 0)
    ELSE ScaledInt(ParseFloat(s), 0)

\* parse_unit_value of "s = v.strip().lower()": the try block.
ParseUnitString(s) ==
    IF EndsWith(s, "gb") THEN ScaledInt(ParseFloat(DropLast(s, 2)), 9)
    ELSE IF EndsWith(s, "mb") THEN ScaledInt(ParseFloat(DropLast(s, 2)), 6)
    ELSE IF EndsWith(s, "kb") THEN ScaledInt(ParseFloat(DropLast(s, 2)), 3)
    ELSE IF EndsWith(s, "b") THEN ScaledInt(ParseFloat(DropLast(s, 1)), 0)
    ELSE ScaledInt(ParseFloat(s), 0)

\* def parse_unit_value(v): an Optional[int], or the exception of int(v).
parse_unit_value(v) ==
    IF IsNumber(v)
    THEN IF IntOfNumber(v).raised THEN IntOfNumber(v) ELSE Return(Some(IntOfNumber(v).val))
    ELSE IF v.t = "str" THEN Return(ParseUnitString(Lower(Strip(v.v))))
    ELSE Return(None)

(***************************************************************************)
(* Per-day byte extraction: _daily_bytes_from_traffic.                     *)
(***************************************************************************)
\* int(s) of a string: blanks, an optional sign and a digit group.
SignedDigits(s) ==
    IF s # "" /\ Head(s) \in { "+", "-" }
    THEN IF DigitGroup(Tail(s))
         THEN Return((IF Head(s) = "-" THEN 0 - 1 ELSE 1) * IntOf(Digits(Tail(s))))
         ELSE Raise("ValueError")
    ELSE IF DigitGroup(s) THEN Return(IntOf(Digits(s))) ELSE Raise("ValueError")

\* int(x)
PyInt(x) ==
    IF IsNumber(x) THEN IntOfNumber(x)
    ELSE IF x.t = "str" THEN SignedDigits(Strip(x.v))
    ELSE Raise("TypeError")

\* repr of a float num * 10^exp.
FloatText(num, exp) ==
    (IF num < 0 THEN "-" ELSE "")
    \o (IF exp >= 0 THEN ToString(Abs(num) * Pow10(exp)) \o ".0"
        ELSE ToString(Abs(num) \div Pow10(0 - exp)) \o "."
                \o Pad(Abs(num) % Pow10(0 - exp), 0 - exp))

\* str(x); of a list or dict only the brackets are kept.
PyStr(x) ==
    CASE x.t = "str" -> x.v
      [] x.t = "int" -> ToString(x.v)
      [] x.t = "bool" -> IF x.v THEN "True" ELSE "False"
      [] x.t = "null" -> "None"
      [] x.t = "float" -> FloatText(x.v[1], x.v[2])
      [] x.t = "nonfinite" -> x.v
      [] x.t = "list" -> "[]"
      [] OTHER -> "{}"

\* A loop or block that returned goes no further; one that fell through (None)
\* goes on with the rest.
OrElse(outcome, rest) == IF outcome # None THEN outcome[1] ELSE rest

\* "if isinstance(v, (int, float)): return int(v)": the first key of keys, from
\* position i on, that holds a number.
RECURSIVE FirstNumber(_, _, _)
FirstNumber(it, keys, i) ==
    IF i > Len(keys) THEN None
    ELSE IF IsNumber(Get(it, keys[i])) THEN Some(IntOfNumber(Get(it, keys[i])))
    ELSE FirstNumber(it, keys, i + 1)

\* "pv = parse_unit_value(v); if pv is not None: return pv"
UnitOrElse(pv, rest) ==
    IF pv.raised THEN Some(pv)
    ELSE IF pv.val # None THEN Some(Return(pv.val[1]))
    ELSE rest

\* The loops over keys whose values parse_unit_value reads: a number is returned
\* as int(v), a string as its parsed value.
RECURSIVE FirstUnitValue(_, _, _)
FirstUnitValue(it, keys, i) ==
    IF i > Len(keys) THEN None
    ELSE UnitOrElse(parse_unit_value(Get(it, keys[i])), FirstUnitValue(it, keys, i + 1))

\* "return int(rx or 0) + int(tx or 0)" inside "try: ... except Exception: pass".
SumOrPass(a, b) ==
    IF a.raised \/ b.raised THEN None ELSE Some(Return(a.val + b.val))

\* "if isinstance(rx, (int, float)) or isinstance(tx, (int, float)): return ..."
RxPlusTx(rx, tx) ==
    IF IsNumber(rx) \/ IsNumber(tx)
    THEN SumOrPass(PyInt(Or(rx, JInt(0))), PyInt(Or(tx, JInt(0))))
    ELSE None

\* rx_bytes / rxBytes, tx_bytes / txBytes of the mapping d.
RxTxOf(d) ==
    RxPlusTx(Or(Get(d, "rx_bytes"), Get(d, "rxBytes")),
             Or(Get(d, "tx_bytes"), Get(d, "txBytes")))

\* int(float(v) * 10^k) of a number v.
ScaledNumber(v, k) ==
    CASE v.t = "int" -> Return(Trunc(v.v, k))
      [] v.t = "bool" -> Return(Trunc(IF v.v THEN 1 ELSE 0, k))
      [] v.t = "float" -> Return(Trunc(v.v[1], v.v[2] + k))
      [] OTHER -> Raise(IF v.v = "nan" THEN "ValueError" ELSE "OverflowError")

\* The loops over the traffic_gb / traffic_mb spellings.
RECURSIVE FirstScaled(_, _, _, _)
FirstScaled(it, keys, k, i) ==
    IF i > Len(keys) THEN None
    ELSE IF IsNumber(Get(it, keys[i])) THEN Some(ScaledNumber(Get(it, keys[i]), k))
    ELSE FirstScaled(it, keys, k, i + 1)

\* "totals = it.get('totals'); if isinstance(totals, dict): ..."
TotalsBytes(totals) ==
    IF IsDict(totals)
    THEN IF FirstNumber(totals, <<"rx_tx_bytes", "rxTxBytes", "rx_tx", "rxTx", "bytes",
                                  "total_rx_tx">>, 1) # None
         THEN FirstNumber(totals, <<"rx_tx_bytes", "rxTxBytes", "rx_tx", "rxTx", "bytes",
                                    "total_rx_tx">>, 1)
         ELSE RxTxOf(totals)
    ELSE None

\* "vv = extract_bytes(m); if vv: return vv"
NestedOrElse(vv, rest) ==
    IF vv.raised THEN Some(vv)
    ELSE IF vv.val # 0 THEN Some(vv)
    ELSE rest

RECURSIVE extract_bytes(_)

\* "for nest_key in ('value', 'metrics', 'stat', 'stats'): ..."
RECURSIVE NestedBytes(_, _, _)
NestedBytes(it, keys, i) ==
    IF i > Len(keys) THEN None
    ELSE IF IsDict(Get(it, keys[i]))
         THEN NestedOrElse(extract_bytes(Get(it, keys[i])), NestedBytes(it, keys, i + 1))
         ELSE NestedBytes(it, keys, i + 1)

\* def extract_bytes(it): the byte count, or the exception it raises.
extract_bytes(it) ==
    OrElse(FirstUnitValue(it, <<"rx_tx_bytes", "rxTxBytes", "rx_tx", "rxTx",
                                "traffic_bytes", "trafficBytes", "bytes">>, 1),
    OrElse(RxTxOf(it),
    OrElse(FirstScaled(it, <<"traffic_gb", "trafficGB", "usage_gb", "usageGB">>, 9, 1),
    OrElse(FirstScaled(it, <<"traffic_mb", "trafficMB", "usage_mb", "usageMB">>, 6, 1),
    OrElse(FirstUnitValue(it, <<"traffic", "usage">>, 1),
    OrElse(TotalsBytes(Get(it, "totals")),
    OrElse(NestedBytes(it, <<"value", "metrics", "stat", "stats">>, 1),
           Return(0))))))))

\* "v = it.get(k); if v: return str(v)": the first truthy value under keys.
RECURSIVE FirstTruthy(_, _, _)
FirstTruthy(it, keys, i) ==
    IF i > Len(keys) THEN None
    ELSE IF JTruthy(Get(it, keys[i])) THEN Some(PyStr(Get(it, keys[i])))
    ELSE FirstTruthy(it, keys, i + 1)

\* "for k in ('grouping', 'groupKey', 'grouping_key'): v = it.get(k);
\*  if isinstance(v, dict): ..."
RECURSIVE FirstGrouped(_, _, _)
FirstGrouped(it, keys, i) ==
    IF i > Len(keys) THEN None
    ELSE IF IsDict(Get(it, keys[i]))
            /\ FirstTruthy(Get(it, keys[i]), <<"date", "day", "timestamp", "time", "bucket",
                                               "startDate", "value">>, 1) # None
         THEN FirstTruthy(Get(it, keys[i]), <<"date", "day", "timestamp", "time", "bucket",
                                              "startDate", "value">>, 1)
         ELSE FirstGrouped(it, keys, i + 1)

\* def extract_date_str(it): an Optional[str]
extract_date_str(it) ==
    IF FirstTruthy(it, <<"date", "day", "timestamp", "time", "bucket", "startDate",
                         "grouping_key", "groupingValue", "group", "key">>, 1) # None
    THEN FirstTruthy(it, <<"date", "day", "timestamp", "time", "bucket", "startDate",
                           "grouping_key", "groupingValue", "group", "key">>, 1)
    ELSE FirstGrouped(it, <<"grouping", "groupKey", "grouping_key">>, 1)

\* The lists "for key in ('data', 'result', 'records', 'rows', 'items')" collects.
RECURSIVE Containers(_, _, _)
Containers(traffic, keys, i) ==
    IF i > Len(keys) THEN <<>>
    ELSE (IF IsList(Get(traffic, keys[i])) THEN <<Get(traffic, keys[i]).v>>
          ELSE IF IsDict(Get(traffic, keys[i])) /\ IsList(Get(Get(traffic, keys[i]), "items"))
               THEN <<Get(Get(traffic, keys[i]), "items").v>>
               ELSE <<>>)
         \o Containers(traffic, keys, i + 1)

\* "for data in containers: for item in data": the items in the order visited.
RECURSIVE Flatten(_)
Flatten(lists) == IF lists = <<>> THEN <<>> ELSE Head(lists) \o Flatten(Tail(lists))

\* "d = _parse_date_guess(date_str)" of an item that is a dict with a truthy date
\* string; None for the items the loop skips.
ItemDay(item) ==
    IF ~IsDict(item) THEN None
    ELSE IF extract_date_str(item) = None THEN None
    ELSE IF extract_date_str(item)[1] = "" THEN None
    ELSE parse_date_guess(extract_date_str(item)[1])

\* "result[key] = b" in place of "result[key] = result.get(key, 0) + b".
AddBytesOverwriting(result, key, b) ==
    [ k \in (DOMAIN result) \cup { key } |-> IF k = key THEN b ELSE result[k] ]

\* "result[key] = result.get(key, 0) + b"
AddBytes(result, key, b) ==
    [ k \in (DOMAIN result) \cup { key } |->
        IF k = key THEN DictGet(result, key, 0) + b ELSE result[k] ]

\* "key = d.strftime('%Y-%m-%d')": the C library's %Y writes a year below 1000
\* with four digits or without leading zeros, depending on the build (padded).
Strftime(d, padded) ==
    IF padded THEN FormatDate(d)
    ELSE ToString(d.year) \o "-" \o Pad(d.month, 2) \o "-" \o Pad(d.day, 2)

RECURSIVE Accumulate(_, _, _, _)

\* One pass of the loop body for an item whose day d is known.
AccumulateItem(items, i, result, d, b, padded) ==
    IF d = None THEN Accumulate(items, i + 1, result, padded)
    ELSE IF b.raised THEN b
    ELSE Accumulate(items, i + 1, AddBytes(result, Strftime(d[1], padded), b.val), padded)

\* The loop over the items from position i on.
Accumulate(items, i, result, padded) ==
    IF i > Len(items) THEN Return(result)
    ELSE IF ~IsDict(items[i]) THEN Accumulate(items, i + 1, result, padded)
    ELSE AccumulateItem(items, i, result, ItemDay(items[i]), extract_bytes(items[i]),
                        padded)

\* def _daily_bytes_from_traffic(traffic) on a build whose strftime pads the year
\* or does not: the mapping, or the exception raised.
daily_bytes_from_traffic_on(traffic, padded) ==
    IF ~IsDict(traffic) THEN Return(<<>>)
    ELSE Accumulate(Flatten(Containers(traffic, <<"data", "result", "records", "rows",
                                                  "items">>, 1)), 1, <<>>, padded)

\* def _daily_bytes_from_traffic(traffic) for responses dated in the year 1000 or
\* later, where every build writes the same keys.
daily_bytes_from_traffic(traffic) == daily_bytes_from_traffic_on(traffic, TRUE)

(***************************************************************************)
(* Snapshot extraction: _extract_subs_info.                                *)
(***************************************************************************)
\* A float without trailing zeros in num, so that equal numbers are equal values.
RECURSIVE FloatOf(_, _)
FloatOf(num, exp) ==
    IF num = 0 THEN JFloat(0, 0)
    ELSE IF num % 10 = 0 THEN FloatOf(num \div 10, exp + 1)
    ELSE JFloat(num, exp)

\* The float a string parsed to: digits beyond a double's range give inf.
FloatOfParsed(f) ==
    IF f.kind = "nonfinite" THEN JNonFinite(f.name)
    ELSE IF Overflows(f.num, f.exp) THEN JNonFinite(IF f.num < 0 THEN "-inf" ELSE "inf")
    ELSE FloatOf(f.num, f.exp)

\* float(x): the float, or the TypeError / ValueError it raises.
PyFloat(x) ==
    CASE x.t = "int" -> Return(FloatOf(x.v, 0))
      [] x.t = "bool" -> Return(FloatOf(IF x.v THEN 1 ELSE 0, 0))
      [] x.t = "float" -> Return(FloatOf(x.v[1], x.v[2]))
      [] x.t = "nonfinite" -> Return(x)
      [] x.t = "str" -> IF ParseFloat(x.v).kind = "invalid" THEN Raise("ValueError")
                        ELSE Return(FloatOfParsed(ParseFloat(x.v)))
      [] OTHER -> Raise("TypeError")

\* "try: info[f] = float(node[k]) / except (TypeError, ValueError): info[f] = node[k]"
FloatOrRaw(x) == IF PyFloat(x).raised THEN x ELSE PyFloat(x).val

\* def _first_mapping_candidate(obj)
first_mapping_candidate(obj) ==
    IF IsDict(obj) THEN Some(obj)
    ELSE IF IsList(obj) /\ obj.v # <<>> /\ IsDict(obj.v[1]) THEN Some(obj.v[1])
    ELSE None

\* "for k in ('data', 'subscription', 'result'): if k in subscriptions:
\*  roots.append(subscriptions[k])"
RECURSIVE ChildRoots(_, _, _)
ChildRoots(subscriptions, keys, i) ==
    IF i > Len(keys) THEN <<>>
    ELSE (IF Has(subscriptions, keys[i]) THEN <<Get(subscriptions, keys[i])>> ELSE <<>>)
         \o ChildRoots(subscriptions, keys, i + 1)

\* roots
Roots(subscriptions) ==
    <<subscriptions>> \o
    (IF IsDict(subscriptions) THEN ChildRoots(subscriptions, <<"data", "subscription", "result">>, 1)
     ELSE <<>>)

\* "for r in roots: n = _first_mapping_candidate(r); if n: candidates.append(n)"
RECURSIVE CandidateNodes(_, _)
CandidateNodes(roots, i) ==
    IF i > Len(roots) THEN <<>>
    ELSE (IF first_mapping_candidate(roots[i]) # None
             /\ JTruthy(first_mapping_candidate(roots[i])[1])
          THEN first_mapping_candidate(roots[i]) ELSE <<>>)
         \o CandidateNodes(roots, i + 1)

keys_limit == <<"traffic_limit", "limit", "data_limit", "max_traffic", "max_usage", "max">>
keys_used == <<"traffic_per_period", "used", "usage", "traffic_used", "data_used">>
keys_start ==
    <<"current_period_start", "period_start", "start_date", "cycle_start", "from", "startAt",
      "start_at">>
keys_end ==
    <<"current_period_end", "period_end", "end_date", "cycle_end", "to", "endAt", "end_at",
      "next_billing_date", "renews_at", "valid_until", "expires_at">>
keys_plan == <<"plan", "name", "subscription_plan", "package_name">>

\* "for k in keys: if k in node and node[k] is not None: ...; break": the value of
\* the first key of keys, from position i on, that node holds with a value other
\* than None.
RECURSIVE FirstNotNone(_, _, _)
FirstNotNone(node, keys, i) ==
    IF i > Len(keys) THEN None
    ELSE IF Has(node, keys[i]) /\ Get(node, keys[i]).t # "null" THEN Some(Get(node, keys[i]))
    ELSE FirstNotNone(node, keys, i + 1)

\* "for k in keys: if k in node and node[k]: ...; break"
RECURSIVE FirstTruthyValue(_, _, _)
FirstTruthyValue(node, keys, i) ==
    IF i > Len(keys) THEN None
    ELSE IF Has(node, keys[i]) /\ JTruthy(Get(node, keys[i])) THEN Some(Get(node, keys[i]))
    ELSE FirstTruthyValue(node, keys, i + 1)

\* "for node in candidates: if info[f] is None: ..." for a numeric field f.
RECURSIVE NumericField(_, _, _)
NumericField(nodes, j, keys) ==
    IF j > Len(nodes) THEN None
    ELSE IF FirstNotNone(nodes[j], keys, 1) # None
         THEN Some(FloatOrRaw(FirstNotNone(nodes[j], keys, 1)[1]))
         ELSE NumericField(nodes, j + 1, keys)

\* "for node in candidates: if info[f] is None: ..." for a text field f.
RECURSIVE TextField(_, _, _)
TextField(nodes, j, keys) ==
    IF j > Len(nodes) THEN None
    ELSE IF FirstTruthyValue(nodes[j], keys, 1) # None
         THEN Some(PyStr(FirstTruthyValue(nodes[j], keys, 1)[1]))
         ELSE TextField(nodes, j + 1, keys)

\* The five fields probed over the candidate nodes.
InfoOf(nodes) ==
    [ limit        |-> NumericField(nodes, 1, keys_limit),
      used         |-> NumericField(nodes, 1, keys_used),
      period_start |-> TextField(nodes, 1, keys_start),
      period_end   |-> TextField(nodes, 1, keys_end),
      plan         |-> TextField(nodes, 1, keys_plan) ]

\* def _extract_subs_info(subscriptions)
extract_subs_info(subscriptions) ==
    IF ~(IsDict(subscriptions) \/ IsList(subscriptions)) THEN InfoOf(<<>>)
    ELSE InfoOf(CandidateNodes(Roots(subscriptions), 1))

(***************************************************************************)
(* The report text: format_usage.  Python's None is JNull here; a float is *)
(* a JFloat or a JNonFinite.                                               *)
(***************************************************************************)
\* a - b of two floats.
FloatSub(a, b) ==
    IF a.t = "nonfinite" \/ b.t = "nonfinite"
    THEN IF a.t = "nonfinite" /\ b.t = "nonfinite"
         THEN (IF a.v = "nan" \/ b.v = "nan" \/ a.v = b.v THEN JNonFinite("nan") ELSE a)
         ELSE IF a.t = "nonfinite" THEN a
         ELSE IF b.v = "nan" THEN b
         ELSE JNonFinite(IF b.v = "inf" THEN "-inf" ELSE "inf")
    ELSE FloatOf(a.v[1] * Pow10(a.v[2] - Min(a.v[2], b.v[2]))
                     - b.v[1] * Pow10(b.v[2] - Min(a.v[2], b.v[2])),
                 Min(a.v[2], b.v[2]))

\* max(x, 0.0): x unless 0.0 > x.
MaxZero(x) ==
    IF x.t = "nonfinite" THEN (IF x.v = "-inf" THEN JFloat(0, 0) ELSE x)
    ELSE IF x.v[1] < 0 THEN JFloat(0, 0) ELSE x

\* x / 1_000_000_000.0
DivBillion(x) == IF x.t = "nonfinite" THEN x ELSE FloatOf(x.v[1], x.v[2] - 9)

\* The hundredths nearest to n / 10^k for k > 0, a tie going to the even one.
RoundHalfEven(n, k) ==
    (n \div Pow10(k))
    + (IF (n % Pow10(k)) > 5 * Pow10(k - 1)
          \/ ((n % Pow10(k)) = 5 * Pow10(k - 1) /\ (n \div Pow10(k)) % 2 = 1)
       THEN 1 ELSE 0)

\* The hundredths of |num * 10^exp|.
Hundredths(num, exp) ==
    IF exp >= 0 - 2 THEN Abs(num) * Pow10(exp + 2) ELSE RoundHalfEven(Abs(num), 0 - exp - 2)

\* f"{x:.2f}"
Fmt2(x) ==
    IF x.t = "nonfinite" THEN x.v
    ELSE (IF x.v[1] < 0 THEN "-" ELSE "")
         \o ToString(Hundredths(x.v[1], x.v[2]) \div 100) \o "."
         \o Pad(Hundredths(x.v[1], x.v[2]) % 100, 2)

\* "try: used = float(used_period) / except (TypeError, ValueError): used = None"
FloatOrNone(x) == IF PyFloat(x).raised THEN JNull ELSE PyFloat(x).val

\* "if used is None and used_period is not None: ..." (397-401, 406-410)
UsedAfter(used, used_period) ==
    IF used.t = "null" /\ used_period.t # "null" THEN FloatOrNone(used_period) ELSE used

\* The locals limit and used.
Figures(limit, used) == [limit |-> limit, used |-> used]

\* "for key in ('data', 'subscription', 'result'): if key in subscriptions and
\*  isinstance(subscriptions[key], dict): ..."
RECURSIVE ChildFigures(_, _, _, _)
ChildFigures(subscriptions, keys, i, f) ==
    IF i > Len(keys) THEN f
    ELSE IF Has(subscriptions, keys[i]) /\ IsDict(Get(subscriptions, keys[i]))
         THEN ChildFigures(subscriptions, keys, i + 1,
                  Figures(Or(f.limit, Get(Get(subscriptions, keys[i]), "traffic_limit")),
                          UsedAfter(f.used,
                                    Get(Get(subscriptions, keys[i]), "traffic_per_period"))))
         ELSE ChildFigures(subscriptions, keys, i + 1, f)

\* "if used_period is not None: try: used = float(used_period) ..." (416-420)
UsedOfFirst(used_period) == IF used_period.t # "null" THEN FloatOrNone(used_period) ELSE JNull

\* limit and used as lines 391-420 leave them.
SubscriptionFigures(subscriptions) ==
    IF IsDict(subscriptions)
    THEN ChildFigures(subscriptions, <<"data", "subscription", "result">>, 1,
             Figures(Or(Get(subscriptions, "traffic_limit"), Get(subscriptions, "limit")),
                     UsedAfter(JNull, Get(subscriptions, "traffic_per_period"))))
    ELSE IF IsList(subscriptions) /\ subscriptions.v # <<>> /\ IsDict(subscriptions.v[1])
         THEN Figures(Get(subscriptions.v[1], "traffic_limit"),
                      UsedOfFirst(Get(subscriptions.v[1], "traffic_per_period")))
         ELSE Figures(JNull, JNull)

\* d.get(key, {}) followed by a .get on the result: the result must be a dict,
\* else the .get raises AttributeError.
GetOrEmpty(d, key) == IF Has(d, key) THEN Get(d, key) ELSE JDict(<<>>)

\* Lines 424-430: the explicit aggregate total in GB, None when it is not a number
\* or when reaching it raises.
TotalFromMetadata(traffic) ==
    IF ~IsDict(traffic) THEN JNull
    ELSE IF ~IsDict(GetOrEmpty(traffic, "metadata")) THEN JNull
    ELSE IF ~IsDict(GetOrEmpty(GetOrEmpty(traffic, "metadata"), "totals")) THEN JNull
    ELSE IF IsNumber(Get(GetOrEmpty(GetOrEmpty(traffic, "metadata"), "totals"), "total_rx_tx"))
         THEN DivBillion(PyFloat(Get(GetOrEmpty(GetOrEmpty(traffic, "metadata"), "totals"),
                                     "total_rx_tx")).val)
         ELSE JNull

\* item.get("rx_tx_bytes", 0)
RxTxBytesOrZero(item) == IF Has(item, "rx_tx_bytes") THEN Get(item, "rx_tx_bytes") ELSE JInt(0)

\* "for item in traffic['data']: if isinstance(item, dict): total_bytes +=
\*  int(item.get('rx_tx_bytes', 0))": the total, or the exception int() raises.
RECURSIVE SumItems(_, _, _)
SumItems(data, i, total_bytes) ==
    IF i > Len(data) THEN Return(total_bytes)
    ELSE IF ~IsDict(data[i]) THEN SumItems(data, i + 1, total_bytes)
    ELSE IF PyInt(RxTxBytesOrZero(data[i])).raised THEN PyInt(RxTxBytesOrZero(data[i]))
    ELSE SumItems(data, i + 1, total_bytes + PyInt(RxTxBytesOrZero(data[i])).val)

\* Lines 431-440: the sum of the items in GB, None without an item list or when
\* the summing raises.
TotalFromItems(traffic) ==
    IF IsDict(traffic) /\ IsList(Get(traffic, "data"))
    THEN IF SumItems(Get(traffic, "data").v, 1, 0).raised THEN JNull
         ELSE FloatOf(SumItems(Get(traffic, "data").v, 1, 0).val, 0 - 9)
    ELSE JNull

\* A total that always comes from the items, the explicit aggregate ignored.
total_used_gb_items_only(traffic) == TotalFromItems(traffic)

\* total_used_gb as lines 422-440 leave it.
total_used_gb(traffic) ==
    IF TotalFromMetadata(traffic).t # "null" THEN TotalFromMetadata(traffic)
    ELSE TotalFromItems(traffic)

\* "used_final = used if used is not None else total_used_gb"
UsedFinal(used, total) == IF used.t # "null" THEN used ELSE total

\* Lines 449-459: limit as a float, from the local or else from subs_info.
LimitFinal(limit, subs_info) ==
    IF limit.t # "null" /\ FloatOrNone(limit).t # "null" THEN FloatOrNone(limit)
    ELSE IF subs_info.limit # None THEN FloatOrNone(subs_info.limit[1])
    ELSE JNull

\* def _date_only_text(val), from the cleaned-up string s on.
DateOnlyTextOf(s) ==
    IF Len(s) >= 10 /\ Char(s, 5) = "-" /\ Char(s, 8) = "-"
       /\ AllDigits(Replace(Prefix(s, 10), "-", ""))
    THEN Prefix(s, 10) ELSE s

\* "_date_only_text(val) or '?'"
DateOnlyTextOr(val) ==
    IF val = None THEN "?"
    ELSE IF DateOnlyTextOf(Split(Replace(Replace(Strip(val[1]), "T", " "), "Z", ""), ".")[1]) = ""
         THEN "?"
         ELSE DateOnlyTextOf(Split(Replace(Replace(Strip(val[1]), "T", " "), "Z", ""), ".")[1])

\* The title line; the dash stands for the em dash of the source.
TitleLine(proxy_type) ==
    <<"Decodo Usage" \o (IF proxy_type # None /\ proxy_type[1] # "" THEN " - " \o proxy_type[1]
                         ELSE "")>>

\* Lines 479-485; the arrow is written as in Arrow.
PeriodLines(timeframe_label, subs_info) ==
    IF timeframe_label # None /\ timeframe_label[1] # ""
    THEN <<"Period: " \o timeframe_label[1]>>
    ELSE IF subs_info.period_start # None \/ subs_info.period_end # None
         THEN <<"Subscription period: "
                \o Arrow(DateOnlyTextOr(subs_info.period_start),
                         DateOnlyTextOr(subs_info.period_end))>>
         ELSE <<>>

\* Lines 487-488.
PlanLines(subs_info) ==
    IF subs_info.plan # None THEN <<"Plan: " \o subs_info.plan[1]>> ELSE <<>>

\* Lines 490-497.
UsageLines(used_final, limit_final) ==
    IF used_final.t # "null" /\ limit_final.t # "null"
    THEN <<"Usage: " \o Fmt2(used_final) \o " GB of " \o Fmt2(limit_final) \o " GB",
           "Remaining: " \o Fmt2(MaxZero(FloatSub(limit_final, used_final))) \o " GB">>
    ELSE IF used_final.t # "null" THEN <<"Used: " \o Fmt2(used_final) \o " GB">>
    ELSE IF limit_final.t # "null" THEN <<"Limit: " \o Fmt2(limit_final) \o " GB">>
    ELSE <<>>

\* Lines 499-502, for tz = None.
AsOfLines(now) == <<"", "As of: " \o FormatDateTime(now) \o " UTC">>

\* "\n".join(lines)
RECURSIVE JoinLines(_)
JoinLines(lines) ==
    IF lines = <<>> THEN ""
    ELSE IF Len(lines) = 1 THEN lines[1]
    ELSE lines[1] \o "\n" \o JoinLines(Tail(lines))

\* Lines 447-504, once limit and used_final are known.
ReportOf(subscriptions, limit, used_final, timeframe_label, proxy_type, now) ==
    JoinLines(TitleLine(proxy_type)
              \o PeriodLines(timeframe_label, extract_subs_info(subscriptions))
              \o PlanLines(extract_subs_info(subscriptions))
              \o UsageLines(used_final, LimitFinal(limit, extract_subs_info(subscriptions)))
              \o AsOfLines(now))

\* def format_usage(subscriptions, traffic, *, timeframe_label, proxy_type, tz=None)
format_usage(subscriptions, traffic, timeframe_label, proxy_type, now) ==
    IF UsedFinal(SubscriptionFigures(subscriptions).used, total_used_gb(traffic)).t = "null"
       /\ SubscriptionFigures(subscriptions).limit.t = "null"
    THEN "Couldn't determine usage from API response."
    ELSE ReportOf(subscriptions, SubscriptionFigures(subscriptions).limit,
                  UsedFinal(SubscriptionFigures(subscriptions).used, total_used_gb(traffic)),
                  timeframe_label, proxy_type, now)

(***************************************************************************)
(* State.                                                                  *)
(***************************************************************************)
VARIABLES
    \* one report request: _handle_usage or _handle_chart
    handler,        \* "usage" or "chart"
    authorized,     \* _is_allowed(chat_id, settings.telegram_allowed_chat_ids)
    env,            \* the environment Settings() reads
    clock,          \* dt.datetime.now(dt.UTC) when the request starts
    pc,             \* where the handler's coroutine stands
    settings,       \* settings = Settings()
    client,         \* the DecodoClient: "none", "open", "closed"
    window,         \* <<from_date, to_date>>
    candidates,     \* _build_proxy_type_candidates(settings.decodo_service_type)
    idx,            \* position of the for loop in candidates
    log,            \* the get_traffic calls made on the open client, with results
    last_err,       \* last_err
    traffic,        \* traffic
    exc,            \* the exception leaving the inner try block
    now_utc,        \* the clock as read again after the fetch
    hour_log,       \* the get_traffic calls of the chart's hour-grouped fallback
    out,            \* the message the handler is about to send
    replies,        \* the messages sent to the chat
    \* the candidate list as a function of DECODO_SERVICE_TYPE
    cand_env,       \* the value of DECODO_SERVICE_TYPE (None: unset)
    cand_pc,        \* "input", "built"
    cand_list,      \* the list built
    \* the cycle arithmetic as functions of the anchor string and the date
    cy_anchor,      \* anchor_date_str
    cy_parsed,      \* anchor = _parse_date_guess(anchor_date_str)
    cy_now,         \* now_utc.date()
    cy_pc,          \* "input", "started", "ended", "end_only", "window", "neighbours"
    cy_start,       \* result of _anchored_period_start
    cy_end,         \* result of _anchored_period_end
    cy_time,        \* seconds of the day of now_utc
    cy_window,      \* <<from_date, to_date>> of the anchored branch
    cy_at_end,      \* _anchored_period_start seen from the cycle's end date
    cy_before_end,  \* _anchored_period_start seen from the day before it
    \* the chart's daily series as a function of the two dates and the per-day bytes
    sp_start,       \* start
    sp_end,         \* end
    sp_bytes,       \* per_day_bytes
    sp_pc,          \* "input", "spanned", "series"
    days,           \* days = _build_date_span(sd, ed)
    y_gb,           \* y_gb, in bytes (1e-9 GB)
    \* parse_unit_value as a function of its argument
    pu_in,          \* the argument v and what it is composed of
    pu_pc,          \* "input", "parsed"
    pu_result,      \* what parse_unit_value(v) returns or raises
    \* the extraction functions applied to one decoded response
    ex_shape,       \* how the response is put together
    ex_parts,       \* the pool entries the response is made of
    ex_tree,        \* the decoded response
    ex_pc,          \* "idle", "ready", "daily" or "done"
    ex_daily,       \* the outcome of _daily_bytes_from_traffic
    ex_info,        \* the result of _extract_subs_info
    \* format_usage applied to one pair of responses
    fm_shape,       \* how the subscriptions response is put together
    fm_parts,       \* the pool nodes it is made of
    fm_traffic,     \* the position of the traffic response in TrafficPool
    fm_args,        \* timeframe_label, proxy_type and the clock reading
    fm_pc,          \* "idle", "ready" or "done"
    fm_total,       \* total_used_gb when format_usage has run
    fm_report,      \* the text format_usage returns
    \* two requests running concurrently
    parked,         \* the request that is suspended at an await, <<>> when there is one request
    turn,           \* which of the two requests is running, 0 when there is one request
    \* one list entry run through _daily_bytes_from_traffic
    it_choice,      \* the parts the entry is made of (positions in the pools; <<>> for a non-mapping)
    it_item,        \* the entry
    it_padded,      \* whether strftime pads a year below 1000 to four digits
    it_pc,          \* "ready", "done"
    it_daily        \* the outcome of _daily_bytes_from_traffic

req_vars == <<handler, authorized, env, clock, pc, settings, client, window, candidates,
              idx, log, last_err, traffic, exc, now_utc, hour_log, out, replies>>
cand_vars == <<cand_env, cand_pc, cand_list>>
cy_vars == <<cy_anchor, cy_parsed, cy_now, cy_pc, cy_start, cy_end, cy_time, cy_window,
             cy_at_end, cy_before_end>>
span_vars == <<sp_start, sp_end, sp_bytes, sp_pc, days, y_gb>>
unit_vars == <<pu_in, pu_pc, pu_result>>
extract_vars == <<ex_shape, ex_parts, ex_tree, ex_pc, ex_daily, ex_info>>
format_vars == <<fm_shape, fm_parts, fm_traffic, fm_args, fm_pc, fm_total, fm_report>>
pair_vars == <<parked, turn>>
item_vars == <<it_choice, it_item, it_padded, it_pc, it_daily>>
fn_vars == <<span_vars, unit_vars, extract_vars, format_vars, pair_vars, item_vars>>
not_span_vars == <<req_vars, cand_vars, cy_vars, unit_vars, extract_vars, format_vars, pair_vars, item_vars>>
not_unit_vars == <<req_vars, cand_vars, cy_vars, span_vars, extract_vars, format_vars, pair_vars, item_vars>>
not_extract_vars == <<req_vars, cand_vars, cy_vars, span_vars, unit_vars, format_vars, pair_vars, item_vars>>
not_format_vars == <<req_vars, cand_vars, cy_vars, span_vars, unit_vars, extract_vars, pair_vars, item_vars>>
not_pair_vars == <<req_vars, cand_vars, cy_vars, span_vars, unit_vars, extract_vars, format_vars, item_vars>>
not_item_vars == <<req_vars, cand_vars, cy_vars, span_vars, unit_vars, extract_vars, format_vars, pair_vars>>
vars == <<req_vars, cand_vars, cy_vars, fn_vars>>

\* The parts of the state a specification does not use.
ReqIdle ==
    /\ handler = "usage" /\ authorized = FALSE /\ env = None /\ clock = None
    /\ pc = "off" /\ settings = None /\ client = "none" /\ window = None
    /\ candidates = <<>> /\ idx = 0 /\ log = <<>> /\ last_err = None /\ traffic = None
    /\ exc = None /\ now_utc = None /\ hour_log = <<>> /\ out = None /\ replies = <<>>
CandIdle == cand_env = None /\ cand_pc = "off" /\ cand_list = <<>>
CycleIdle ==
    /\ cy_anchor = "" /\ cy_parsed = None /\ cy_now = None /\ cy_pc = "off"
    /\ cy_start = None /\ cy_end = None /\ cy_time = 0 /\ cy_window = None
    /\ cy_at_end = None /\ cy_before_end = None
SpanIdle ==
    /\ sp_start = None /\ sp_end = None /\ sp_bytes = <<>> /\ sp_pc = "off"
    /\ days = <<>> /\ y_gb = <<>>

UnitIdle ==
    /\ pu_in = None
    /\ pu_pc = "off"
    /\ pu_result = None

ExtractIdle ==
    /\ ex_shape = ""
    /\ ex_parts = <<>>
    /\ ex_tree = JNull
    /\ ex_pc = "idle"
    /\ ex_daily = Return(<<>>)
    /\ ex_info = InfoOf(<<>>)

FormatIdle ==
    /\ fm_shape = ""
    /\ fm_parts = <<>>
    /\ fm_traffic = 0
    /\ fm_args = <<>>
    /\ fm_pc = "idle"
    /\ fm_total = JNull
    /\ fm_report = ""

PairIdle ==
    /\ parked = <<>>
    /\ turn = 0

ItemIdle ==
    /\ it_choice = <<>>
    /\ it_item = JNull
    /\ it_padded = TRUE
    /\ it_pc = "idle"
    /\ it_daily = Return(<<>>)

\* Every function-level part but the one named is unused.
FnIdleExcept(part) ==
    /\ IF part = "span" THEN TRUE ELSE SpanIdle
    /\ IF part = "unit" THEN TRUE ELSE UnitIdle
    /\ IF part = "extract" THEN TRUE ELSE ExtractIdle
    /\ IF part = "format" THEN TRUE ELSE FormatIdle
    /\ IF part = "pair" THEN TRUE ELSE PairIdle
    /\ IF part = "item" THEN TRUE ELSE ItemIdle

(***************************************************************************)
(* One report request: _handle_usage / _handle_chart.  Each action is the   *)
(* code a handler runs between two awaits.                                  *)
(***************************************************************************)
\* The most non-HTTP exceptions (timeouts, connection errors, undecodable bodies)
\* the queries of one request raise.
MaxExceptions == 1

\* The environments a request starts in.
Envs ==
    [ service : { None, Some("foo") },
      start   : { None, Some("2024-01-31"), Some("2023-02-30"), Some("not-a-date"),
                  Some("   ") },
      end     : { None, Some("2024-03-31") },
      tz      : { "UTC", "Europe/Moscow" } ]

\* The instants a request starts at.
Clocks ==
    { DateTime(Date(2024, 3, 5), 43200), DateTime(Date(2024, 2, 29), 86399) }

\* What the clock may read when a handler reads it again after the fetch: the
\* same instant, or the start of the next day.
LaterReadings(t) == { t, DateTime(NextDay(t.date), 0) }

\* The status codes raise_for_status raises httpx.HTTPStatusError for.
ErrorStatuses == { 400, 401, 503 }

\* What a successful response holds for _daily_bytes_from_traffic: per-day items
\* ("daily"), none ("empty"), or an item whose byte field is not a finite number
\* ("nonfinite").
Bodies == { "daily", "empty", "nonfinite" }

\* The decoded response of a body.
BodyTree(body) ==
    JDict(<< <<"data",
               JList(CASE body = "daily" ->
                            << JDict(<< <<"date", JStr("2024-03-01")>>,
                                        <<"rx_tx_bytes", JInt(5)>> >>),
                               JDict(<< <<"date", JStr("2024-03-02")>>,
                                        <<"rx_bytes", JInt(3)>>, <<"tx_bytes", JInt(4)>> >>) >>
                       [] body = "nonfinite" ->
                            << JDict(<< <<"date", JStr("2024-03-01")>>,
                                        <<"rx_tx_bytes", JNonFinite("inf")>> >>) >>
                       [] OTHER -> <<>>)>> >>)

\* httpx.HTTPStatusError raised by get_traffic(type_=pt); any other exception.
HttpError(status, pt) == [kind |-> "http", status |-> status, type_ |-> pt]
OtherError(pt) == [kind |-> "exception", status |-> 0, type_ |-> pt]

\* "except httpx.HTTPStatusError as e: if e.response is not None and
\* e.response.status_code == 400": the rejection of the request's parameters.
IsBadRequest(e) == e.kind = "http" /\ e.status = 400

\* The failures after which a fallback loop goes on to the next candidate: the two
\* except clauses that end in "continue".
Continues(e) == IsBadRequest(e) \/ e.kind = "exception"

Init ==
    /\ CandIdle /\ CycleIdle /\ FnIdleExcept("")
    /\ handler \in { "usage", "chart" }
    /\ authorized \in BOOLEAN
    /\ env \in Envs
    /\ clock \in Clocks
    /\ pc = "start"
    /\ settings = None /\ client = "none" /\ window = None /\ candidates = <<>>
    /\ idx = 0 /\ log = <<>> /\ last_err = None /\ traffic = None /\ exc = None
    /\ now_utc = None /\ hour_log = <<>> /\ out = None /\ replies = <<>>

\* The message a handler sends.
Message(kind, text, label, span) ==
    [kind |-> kind, text |-> text, label |-> label, span |-> span]

\* "if not _is_allowed(...): await message.answer("Not authorized."); return"
Deny ==
    /\ pc = "start" /\ ~authorized
    /\ settings' = Some(Settings(env))
    /\ replies' = Append(replies, Message("denied", "Not authorized.", None, None))
    /\ pc' = "done"
    /\ UNCHANGED <<handler, authorized, env, clock, client, window, candidates, idx, log,
                   last_err, traffic, exc, now_utc, hour_log, out, cand_vars, cy_vars, fn_vars>>

\* The window a handler computes before its loop.
FirstWindow(st) ==
    IF handler = "usage" /\ WindowMode(st) = "month" THEN None ELSE QueryWindow(st, clock)

\* From the handler's entry to its first get_traffic call: the settings, the client,
\* the query window and the candidate list.  _handle_usage computes no window in
\* its current-month branch: get_current_month_usage does, at each call.
Start ==
    /\ pc = "start" /\ authorized
    /\ settings' = Some(Settings(env))
    /\ window' = FirstWindow(Settings(env))
    /\ candidates' = build_proxy_type_candidates(SettingsServiceType(env.service))
    /\ client' = "open"
    /\ idx' = 1
    /\ pc' = "call"
    /\ UNCHANGED <<handler, authorized, env, clock, log, last_err, traffic, exc, now_utc,
                   hour_log, out, replies, cand_vars, cy_vars, fn_vars>>

\* The body of the request for candidates[idx].
CurrentPayload ==
    IF window = None
    THEN Payload(candidates[idx], CurrentMonthWindow(clock)[1],
                 CurrentMonthWindow(clock)[2], None)
    ELSE Payload(candidates[idx], window[1], window[2], Some("day"))

Call(pt, payload, result) == [type_ |-> pt, payload |-> payload, result |-> result]

\* The calls of log still awaiting their result.
InFlight == { i \in 1..Len(log) : log[i].result = "pending" }

\* log with the result of its last call filled in.
Resolved(result) == [log EXCEPT ![Len(log)].result = result]

\* IssueQuery going on to the next candidate without awaiting the result.
IssueQueryNoAwait ==
    /\ pc = "call"
    /\ log' = Append(log, Call(candidates[idx], CurrentPayload, "pending"))
    /\ idx' = IF idx < Len(candidates) THEN idx + 1 ELSE idx
    /\ pc' = IF idx < Len(candidates) THEN "call" ELSE "await"
    /\ UNCHANGED <<handler, authorized, env, clock, settings, client, window, candidates,
                   last_err, traffic, exc, now_utc, hour_log, out, replies,
                   cand_vars, cy_vars, fn_vars>>

\* "traffic = await client.get_traffic(...)": the request goes out and the
\* handler is suspended.
IssueQuery ==
    /\ pc = "call"
    /\ log' = Append(log, Call(candidates[idx], CurrentPayload, "pending"))
    /\ pc' = "await"
    /\ UNCHANGED <<handler, authorized, env, clock, settings, client, window, candidates,
                   idx, last_err, traffic, exc, now_utc, hour_log, out, replies,
                   cand_vars, cy_vars, fn_vars>>

\* The query returns a response: "break" ("return" in
\* _fetch_month_usage_with_fallback), then the finally clause.
QueryOk ==
    /\ pc = "await"
    /\ \E body \in Bodies : traffic' = Some([type_ |-> candidates[idx], body |-> body])
    /\ log' = Resolved("ok")
    /\ pc' = "closing"
    /\ UNCHANGED <<handler, authorized, env, clock, settings, client, window, candidates,
                   idx, last_err, exc, now_utc, hour_log, out, replies, cand_vars, cy_vars, fn_vars>>

\* What a fallback loop does with the exception e of the query for candidates[idx]:
\* remember it and go on, or re-raise it; after the last candidate "raise last_err".
HandleFailure(e) ==
    IF Continues(e)
    THEN /\ last_err' = Some(e)
         /\ IF idx < Len(candidates)
            THEN idx' = idx + 1 /\ pc' = "call" /\ exc' = exc
            ELSE idx' = idx /\ pc' = "closing" /\ exc' = Some(e)
    ELSE /\ last_err' = last_err
         /\ idx' = idx /\ pc' = "closing" /\ exc' = Some(e)

\* The query fails with an HTTP status error.
QueryHttpError ==
    /\ pc = "await"
    /\ \E status \in ErrorStatuses :
          /\ log' = Resolved("http" \o ToString(status))
          /\ HandleFailure(HttpError(status, candidates[idx]))
    /\ UNCHANGED <<handler, authorized, env, clock, settings, client, window, candidates,
                   traffic, now_utc, hour_log, out, replies, cand_vars, cy_vars, fn_vars>>

\* The query fails with an exception that is no HTTP status error.
QueryException ==
    /\ pc = "await"
    /\ Cardinality({ i \in 1..Len(log) : log[i].result = "exception" }) < MaxExceptions
    /\ log' = Resolved("exception")
    /\ HandleFailure(OtherError(candidates[idx]))
    /\ UNCHANGED <<handler, authorized, env, clock, settings, client, window, candidates,
                   traffic, now_utc, hour_log, out, replies, cand_vars, cy_vars, fn_vars>>

\* The text of the error replies of the two handlers.
ErrorText(e) ==
    (IF handler = "usage" THEN "Error fetching usage: "
     ELSE IF e.kind = "http" THEN "Error fetching chart: " ELSE "Error generating chart: ")
    \o (IF e.kind = "http" THEN "HTTP " \o ToString(e.status) ELSE "exception")

\* The hour-grouped fallback of _handle_chart: it runs after the finally clause has
\* closed the client, so every call raises (an exception that is no HTTP status
\* error) before a request goes out, and the loop runs through all candidates.
HourCalls ==
    [ i \in 1..Len(candidates) |->
        Call(candidates[i], Payload(candidates[i], window[1], window[2], Some("hour")),
             "exception") ]

\* The label of the chart: days[0] and days[-1] of the span, joined by an arrow.
ChartLabel(span) ==
    IF DateLE(span[1], span[2])
    THEN FormatDate(span[1]) \o " -> " \o FormatDate(span[2])
    ELSE FormatDate(span[2]) \o " -> " \o FormatDate(span[1])

\* The chart's message.
PhotoMessage(span) == Message("photo", "", Some(ChartLabel(span)), Some(span))

\* "except Exception as e: await message.answer(f'Error generating chart: {e}')"
\* for an exception raised after the fetch; the exception's name stands for its
\* text.
ExtractionErrorMessage(exception) ==
    Message("error", "Error generating chart: " \o exception, None, None)

\* "finally: await client.aclose()", then everything up to the handler's reply:
\* the error message when the fetch raised, else the label and the report
\* (_handle_usage) or the span, the per-day bytes, the hour-grouped fallback and
\* the chart (_handle_chart), or the error message when the extraction raised.
CloseClient ==
    /\ pc = "closing"
    /\ client' = "closed"
    /\ IF exc # None
       THEN /\ out' = Some(Message("error", ErrorText(exc[1]), None, None))
            /\ UNCHANGED <<now_utc, hour_log>>
       ELSE \E t \in LaterReadings(clock) :
            /\ now_utc' = Some(t)
            /\ IF handler = "usage"
               THEN /\ out' = Some(Message("report", "", Some(UsageLabel(settings[1], t)), None))
                    /\ hour_log' = hour_log
               ELSE IF daily_bytes_from_traffic(BodyTree(traffic[1].body)).raised
                    THEN /\ out' = Some(ExtractionErrorMessage(
                                        daily_bytes_from_traffic(BodyTree(traffic[1].body)).val))
                         /\ hour_log' = <<>>
                    ELSE /\ out' = Some(PhotoMessage(ChartSpan(settings[1], t)))
                         /\ hour_log' =
                                IF DOMAIN daily_bytes_from_traffic(BodyTree(traffic[1].body)).val
                                       = {}
                                THEN HourCalls ELSE <<>>
    /\ pc' = "answer"
    /\ UNCHANGED <<handler, authorized, env, clock, settings, window, candidates, idx, log,
                   last_err, traffic, exc, replies, cand_vars, cy_vars, fn_vars>>

\* "await message.answer(...)" / "await message.answer_photo(...)"
Answer ==
    /\ pc = "answer"
    /\ replies' = Append(replies, out[1])
    /\ pc' = "done"
    /\ UNCHANGED <<handler, authorized, env, clock, settings, client, window, candidates,
                   idx, log, last_err, traffic, exc, now_utc, hour_log, out,
                   cand_vars, cy_vars, fn_vars>>

Next ==
    \/ Deny
    \/ Start
    \/ IssueQuery
    \/ QueryOk
    \/ QueryHttpError
    \/ QueryException
    \/ CloseClient
    \/ Answer

Spec == Init /\ [][Next]_vars

(***************************************************************************)
(* Bounds and input domains of the cycle specification.                    *)
(***************************************************************************)
FirstYear == 2023
NumYears == 2

Years == FirstYear..(FirstYear + NumYears - 1)

\* Every calendar date of the years modelled: the dates "now" ranges over.
AllDates ==
    { x \in { Date(y, m, d) : y \in Years, m \in 1..12, d \in 1..31 } :
        x.day <= last_day_of_month(x.year, x.month) }

\* DECODO_SUBSCRIPTION_START_DATE values: every anchor day 1..31, the accepted
\* timestamp spellings, and strings _parse_date_guess cannot parse.
AnchorStrings ==
    { "2024-01-" \o Pad(d, 2) : d \in 1..31 } \cup
    { "2024-02-29", "2023-04-30", " 2024-01-31 ", "2024-01-31T10:00:00Z",
      "2024-03-30 10:00:00.123", "2024-1-5", "2024-01-29junk",
      "2023-02-30", "2023-02-29", "2024-13-01", "not-a-date", "   " }

CycleInit ==
    /\ ReqIdle /\ CandIdle /\ FnIdleExcept("")
    /\ cy_anchor \in AnchorStrings
    /\ cy_parsed = parse_date_guess(cy_anchor)
    /\ cy_now \in AllDates
    /\ cy_pc = "input"
    /\ cy_start = None
    /\ cy_end = None
    /\ cy_time = 0
    /\ cy_window = None
    /\ cy_at_end = None
    /\ cy_before_end = None

\* start_d = _anchored_period_start(env_from, now)            (bot.py 612, 1008)
CycleStart ==
    /\ cy_pc = "input"
    /\ cy_start' = anchored_period_start(cy_anchor, DateTime(cy_now, 0))
    /\ cy_pc' = "started"
    /\ UNCHANGED <<cy_anchor, cy_parsed, cy_now, cy_end, cy_time, cy_window, cy_at_end,
                   cy_before_end, req_vars, cand_vars, fn_vars>>

\* end_d = _anchored_period_end(env_from, start_d) if start_d else None  (613, 1009)
CycleEnd ==
    /\ cy_pc = "started"
    /\ cy_end' = IF cy_start # None
                 THEN anchored_period_end(cy_anchor, cy_start[1]) ELSE None
    /\ cy_pc' = "ended"
    /\ UNCHANGED <<cy_anchor, cy_parsed, cy_now, cy_start, cy_time, cy_window, cy_at_end,
                   cy_before_end, req_vars, cand_vars, fn_vars>>

\* _anchored_period_end applied to an arbitrary start date.
CycleEndOnly ==
    /\ cy_pc = "input"
    /\ cy_end' = anchored_period_end(cy_anchor, cy_now)
    /\ cy_pc' = "end_only"
    /\ UNCHANGED <<cy_anchor, cy_parsed, cy_now, cy_start, cy_time, cy_window, cy_at_end,
                   cy_before_end, req_vars, cand_vars, fn_vars>>

\* The seconds of the day "now" is read at.
TimesOfDay == { 0, 86399 }

\* The anchored branch of a handler: now, start_d, end_d, from_date and to_date
\*                                                    (bot.py 611-620, 1007-1016)
CycleWindow ==
    /\ cy_pc = "input"
    /\ \E t \in TimesOfDay :
          /\ cy_time' = t
          /\ cy_start' = anchored_period_start(cy_anchor, DateTime(cy_now, t))
          /\ cy_end' = CycleEndOf(cy_anchor, cy_start')
          /\ cy_window' = AnchoredWindowOf(cy_anchor, DateTime(cy_now, t), cy_start')
    /\ cy_pc' = "window"
    /\ UNCHANGED <<cy_anchor, cy_parsed, cy_now, cy_at_end, cy_before_end, req_vars,
                   cand_vars, fn_vars>>

\* The day before a date.
PrevDay(x) ==
    IF x.day > 1 THEN Date(x.year, x.month, x.day - 1)
    ELSE IF x.month > 1
    THEN Date(x.year, x.month - 1, last_day_of_month(x.year, x.month - 1))
    ELSE Date(x.year - 1, 12, 31)

\* _anchored_period_start applied to the end date of the cycle just computed and
\* to the day before it: the cycle a request made on those days falls in.
CycleNeighbours ==
    /\ cy_pc = "ended" /\ cy_end # None
    /\ cy_at_end' = anchored_period_start(cy_anchor, DateTime(cy_end[1], 0))
    /\ cy_before_end' = anchored_period_start(cy_anchor, DateTime(PrevDay(cy_end[1]), 0))
    /\ cy_pc' = "neighbours"
    /\ UNCHANGED <<cy_anchor, cy_parsed, cy_now, cy_start, cy_end, cy_time, cy_window,
                   req_vars, cand_vars, fn_vars>>

CycleNext == CycleStart \/ CycleEnd \/ CycleEndOnly \/ CycleWindow \/ CycleNeighbours

SpecCycle == CycleInit /\ [][CycleNext]_vars

(***************************************************************************)
(* The candidate list for every kind of DECODO_SERVICE_TYPE value.         *)
(***************************************************************************)
UpperChar(c) ==
    IF \E i \in 1..Len(LowerChars) : Char(LowerChars, i) = c
    THEN Char(UpperChars, CHOOSE i \in 1..Len(LowerChars) : Char(LowerChars, i) = c)
    ELSE c

RECURSIVE Upper(_)
Upper(s) == IF s = "" THEN "" ELSE UpperChar(Head(s)) \o Upper(Tail(s))

\* The tokens DECODO_SERVICE_TYPE is drawn from: every key of the mapping, a value
\* of the mapping that is no key of it, unknown tokens and the empty string.
ServiceTokens ==
    { mapping[i][1] : i \in 1..Len(mapping) } \cup { "foo", "none", "" }

\* DECODO_SERVICE_TYPE: unset, or a token in lower or upper case with optional
\* surrounding blanks.
ServiceInputs ==
    { None } \cup
    { Some(pre \o body \o post) :
        pre \in { "", " " }, post \in { "", "  " },
        body \in { t : t \in ServiceTokens } \cup { Upper(t) : t \in ServiceTokens } }

CandInit ==
    /\ ReqIdle /\ CycleIdle /\ FnIdleExcept("")
    /\ cand_env \in ServiceInputs
    /\ cand_pc = "input"
    /\ cand_list = <<>>

\* _build_proxy_type_candidates(settings.decodo_service_type)   (bot.py 623, 650, 676, 1030)
BuildCandidates ==
    /\ cand_pc = "input"
    /\ cand_list' = build_proxy_type_candidates(SettingsServiceType(cand_env))
    /\ cand_pc' = "built"
    /\ UNCHANGED <<cand_env, req_vars, cy_vars, fn_vars>>

CandNext == BuildCandidates

SpecCand == CandInit /\ [][CandNext]_vars

\* The preferred proxyType the setting configures: "" when none is configured.
Preferred ==
    LET first == map_service_to_proxy_type(SettingsServiceType(cand_env))
    IN  IF first = None THEN "" ELSE first[1]

\* The values of seq from position i on.
From(seq, i) == SubSeq(seq, i, Len(seq))

\* seq is the fallback sequence with the value skip left out, order kept.
IsFallbackWithout(seq, skip) ==
    /\ Range(seq) = { Some(v) : v \in Range(FallbackProxyTypes) \ { skip } }
    /\ \A i, j \in 1..Len(seq) :
          i < j =>
            \E a, b \in 1..Len(FallbackProxyTypes) :
                a < b /\ seq[i] = Some(FallbackProxyTypes[a])
                      /\ seq[j] = Some(FallbackProxyTypes[b])

\* C5: for every service-preference setting the candidate list contains no value
\* twice, has the mapped preferred value first when one is configured, then the
\* absent candidate, then the fixed fallback values in their fixed relative order.
C5_CandidateListShape ==
    cand_pc = "built" =>
        /\ \A i, j \in 1..Len(cand_list) : i # j => cand_list[i] # cand_list[j]
        /\ IF Preferred # ""
           THEN /\ Len(cand_list) >= 2
                /\ cand_list[1] = Some(Preferred)
                /\ cand_list[2] = None
                /\ IsFallbackWithout(From(cand_list, 3), Preferred)
           ELSE /\ Len(cand_list) >= 1
                /\ cand_list[1] = None
                /\ IsFallbackWithout(From(cand_list, 2), "")

\* C5 witness: the alias " MOBILE  " puts mobile_proxies first, then the absent
\* candidate, and mobile_proxies does not come again among the six fallbacks left.
C5_Witness ==
    /\ cand_pc = "built"
    /\ cand_env = Some(" MOBILE  ")
    /\ Len(cand_list) = 8
    /\ cand_list[1] = Some("mobile_proxies")
    /\ cand_list[2] = None
    /\ cand_list[3] = Some("residential_proxies")

(***************************************************************************)
(* Claims about the billing-cycle arithmetic (checked under SpecCycle).    *)
(***************************************************************************)
\* The anchor day of a parseable anchor string.
AnchorDay == cy_parsed[1].day

\* The month immediately before / after the month of date x, as <<year, month>>.
MonthBefore(x) == IF x.month = 1 THEN <<x.year - 1, 12>> ELSE <<x.year, x.month - 1>>
MonthAfter(x) == IF x.month = 12 THEN <<x.year + 1, 1>> ELSE <<x.year, x.month + 1>>

\* C6: for every anchor day d in 1..31 and every date now, cycleStart(anchor, now)
\* is a date not after now whose day-of-month is min(d, last day of its own month),
\* and it lies in now's month or in the month immediately before it.
C6_CycleStartClamped ==
    (cy_pc \in {"started", "ended"} /\ cy_parsed # None) =>
        /\ cy_start # None
        /\ LET s == cy_start[1]
               d == AnchorDay
           IN  /\ d \in 1..31
               /\ DateLE(s, cy_now)
               /\ s.day = Min(d, last_day_of_month(s.year, s.month))
               /\ \/ <<s.year, s.month>> = <<cy_now.year, cy_now.month>>
                  \/ <<s.year, s.month>> = MonthBefore(cy_now)

\* C6 witness: anchor day 31 seen from 2024-03-05 starts the cycle on the clamped
\* 2024-02-29, in the month before now's.
C6_Witness ==
    /\ cy_pc = "started"
    /\ cy_anchor = "2024-01-31"
    /\ cy_now = Date(2024, 3, 5)
    /\ cy_start = Some(Date(2024, 2, 29))

\* The start date the cycle end was computed from.
EndArgument == IF cy_pc = "ended" THEN cy_start[1] ELSE cy_now

\* C7: for every anchor day d and every start date, cycleEnd(anchor, start) lies in
\* the month immediately following start's month, has day-of-month
\* min(d, last day of that month) computed from the anchor day, and is strictly
\* after start.
C7_CycleEndNextMonth ==
    (cy_pc \in {"ended", "end_only"} /\ cy_parsed # None) =>
        /\ cy_end # None
        /\ LET e == cy_end[1]
               d == AnchorDay
           IN  /\ <<e.year, e.month>> = MonthAfter(EndArgument)
               /\ e.day = Min(d, last_day_of_month(e.year, e.month))
               /\ DateLT(EndArgument, e)

\* C7 witness: anchor day 31 and the clamped start 2024-02-29 end the cycle on
\* 2024-03-31, not on 2024-03-29.
C7_Witness ==
    /\ cy_pc = "ended"
    /\ cy_anchor = "2024-01-31"
    /\ cy_start = Some(Date(2024, 2, 29))
    /\ cy_end = Some(Date(2024, 3, 31))

\* The clamped anchor date of month m of year y for anchor day d.
Boundary(d, y, m) == Date(y, m, Min(d, last_day_of_month(y, m)))

\* C8: cycleStart(anchor, now) is the most recent anchored boundary: no month's
\* clamped anchor date b satisfies cycleStart < b <= now.
C8_MostRecentBoundary ==
    (cy_pc \in {"started", "ended"} /\ cy_parsed # None) =>
        /\ cy_start # None
        /\ LET d == AnchorDay
           IN  \A y \in (FirstYear - 1)..(FirstYear + NumYears), m \in 1..12 :
                  ~(DateLT(cy_start[1], Boundary(d, y, m)) /\ DateLE(Boundary(d, y, m), cy_now))

\* C8 witness: on the boundary day itself (anchor day 15, now 2024-05-15) the cycle
\* starts that day.
C8_Witness ==
    /\ cy_pc = "started"
    /\ cy_anchor = "2024-01-15"
    /\ cy_now = Date(2024, 5, 15)
    /\ cy_start = Some(Date(2024, 5, 15))

(***************************************************************************)
(* Claims about the candidate-fallback loops and the query window          *)
(* (checked under Spec).                                                   *)
(***************************************************************************)
\* The results a call of log has when its query failed with something else than an
\* HTTP 400 rejection.
NonRetryableResults == { "http401", "http503", "exception" }

\* C1: in every candidate-fallback loop a query failure that is not an HTTP 400
\* rejection (auth, rate limit, 5xx, and failures without an HTTP status) propagates
\* immediately: it is the exception leaving the loop and no later candidate is
\* queried after it.
C1_NonRetryablePropagates ==
    \A i \in 1..Len(log) :
        log[i].result \in NonRetryableResults =>
            /\ i = Len(log)
            /\ pc \in { "closing", "answer", "done" }
                  => exc # None /\ exc[1].type_ = log[i].type_

\* C2: candidates are queried strictly in list order, each at most once, and the
\* loop stops at the first success: the response is that of the earliest candidate
\* whose query succeeded, every earlier candidate was queried and failed with a
\* retryable error (HTTP 400), and no candidate after it is queried.
C2_FirstSuccessInOrder ==
    /\ Len(log) <= Len(candidates)
    /\ \A i \in 1..Len(log) : log[i].type_ = candidates[i]
    /\ traffic # None =>
          /\ log[Len(log)].result = "ok"
          /\ traffic[1].type_ = candidates[Len(log)]
          /\ \A j \in 1..(Len(log) - 1) : log[j].result = "http400"

\* C3: a retryable error (HTTP 400) reaches the caller only when every candidate
\* has been queried and every one of them failed with a retryable error, and then
\* it is the error of the last candidate of the list.
C3_LastRetryableOnExhaustion ==
    (exc # None /\ IsBadRequest(exc[1])) =>
        /\ Len(log) = Len(candidates)
        /\ \A i \in 1..Len(log) : log[i].result = "http400"
        /\ exc[1].type_ = candidates[Len(candidates)]

\* C4: within one request at most one upstream query is in flight at any time: the
\* query for a candidate is issued only after the queries for all candidates before
\* it have completed with a failure.
C4_OneQueryInFlight ==
    /\ Cardinality(InFlight) <= 1
    /\ \A i \in InFlight :
          \A j \in 1..(i - 1) : log[j].result \notin { "pending", "ok" }

\* C4 witness: the query for the second candidate is in flight after the first has
\* failed.
C4_Witness ==
    /\ pc = "await"
    /\ Len(log) = 2
    /\ log[1].result = "http400"
    /\ log[2].result = "pending"

\* Whether the request runs with an anchor start date that is set but unparseable.
UnparseableAnchor ==
    /\ settings # None
    /\ Truthy(settings[1].subscription_start_date)
    /\ parse_date_guess(settings[1].subscription_start_date[1]) = None

\* C9: when the anchor start date is set but unparseable, cycleStart and cycleEnd
\* yield null and the request queries the window of the case without an anchor: the
\* first day of the current calendar month to now.
C9_UnparseableAnchorFallsBack ==
    (UnparseableAnchor /\ Len(log) >= 1) =>
        /\ anchored_period_start(settings[1].subscription_start_date[1], clock) = None
        /\ log[1].payload.startDate = CurrentMonthWindow(clock)[1]
        /\ log[1].payload.endDate = CurrentMonthWindow(clock)[2]

\* The settings of the request with the fixed end date taken out.
WithoutEndDate == [settings[1] EXCEPT !.subscription_end_date = None]

\* Whether the request runs with both an anchor start date and a fixed end date.
BothConfigured ==
    /\ settings # None
    /\ Truthy(settings[1].subscription_start_date)
    /\ Truthy(settings[1].subscription_end_date)

\* Whether the request's window and every query it has made so far use the window w.
QueriesUse(w) ==
    /\ window = w
    /\ \A i \in 1..Len(log) :
          log[i].payload = Payload(log[i].type_, w[1], w[2], Some("day"))

\* Whether the message about to be sent carries the label and the span given.
MessageShows(usage_label, span) ==
    /\ out[1].kind = "report" => out[1].label = Some(usage_label)
    /\ out[1].kind = "photo" =>
          out[1].span = Some(span) /\ out[1].label = Some(ChartLabel(span))

\* C10: when both an anchor start date and a fixed end date are configured, the
\* query window, the report label and the chart span are those of the same request
\* without the fixed end date.
C10_AnchorWins ==
    (BothConfigured /\ authorized) =>
        /\ QueriesUse(QueryWindow(WithoutEndDate, clock))
        /\ (out # None /\ exc = None) =>
              MessageShows(UsageLabel(WithoutEndDate, now_utc[1]),
                           ChartSpan(WithoutEndDate, now_utc[1]))

\* C10 witness: a usage report sent with anchor 2024-01-31 and fixed end 2024-03-31
\* configured, queried from the cycle start 2024-02-29 and labelled with the cycle.
C10_Witness ==
    /\ pc = "done"
    /\ handler = "usage"
    /\ BothConfigured
    /\ settings[1].subscription_start_date = Some("2024-01-31")
    /\ clock = DateTime(Date(2024, 3, 5), 43200)
    /\ Len(log) >= 1
    /\ log[Len(log)].payload.startDate = Some("2024-02-29 00:00:00")
    /\ log[Len(log)].payload.endDate = Some("2024-03-05 12:00:00")
    /\ Len(replies) = 1
    /\ replies[1].kind = "report"
    /\ replies[1].label = Some("2024-02-29 -> 2024-03-31")


(***************************************************************************)
(* The date span and the daily series for every pair of dates.             *)
(***************************************************************************)
\* The dates start and end range over: SpanLength consecutive days from
\* SpanFirstDay on, across the end of a year and the 29th of February.
SpanLength == 75
SpanFirstDay == Date(2023, 12, 20)
SpanDates == Range(DaysFrom(SpanFirstDay, SpanLength))

\* The per-day mappings _daily_bytes_from_traffic may hand over: none, and days
\* inside and outside the dates above with positive, zero and negative bytes.
PerDayBytes ==
    { <<>>,
      [ k \in { "2024-01-01", "2024-02-29", "2022-01-01" } |->
            IF k = "2024-01-01" THEN 1500000000 ELSE IF k = "2024-02-29" THEN 0 - 5 ELSE 7 ] }

SpanInit ==
    /\ ReqIdle /\ CandIdle /\ CycleIdle /\ FnIdleExcept("span")
    /\ sp_start \in SpanDates
    /\ sp_end \in SpanDates
    /\ sp_bytes \in PerDayBytes
    /\ sp_pc = "input"
    /\ days = <<>>
    /\ y_gb = <<>>

\* days = _build_date_span(sd, ed)                                    (bot.py 1072)
BuildSpan ==
    /\ sp_pc = "input"
    /\ days' = build_date_span(sp_start, sp_end)
    /\ sp_pc' = "spanned"
    /\ UNCHANGED <<sp_start, sp_end, sp_bytes, y_gb, not_span_vars>>

\* y_gb = [... for d in days]                                         (bot.py 1102)
BuildSeries ==
    /\ sp_pc = "spanned"
    /\ y_gb' = DailySeries(days, sp_bytes)
    /\ sp_pc' = "series"
    /\ UNCHANGED <<sp_start, sp_end, sp_bytes, days, not_span_vars>>

SpanNext == BuildSpan \/ BuildSeries

SpecSpan == SpanInit /\ [][SpanNext]_vars

(***************************************************************************)
(* Claims about the date span and the daily series (checked under          *)
(* SpecSpan).                                                              *)
(***************************************************************************)
\* The earlier and the later of the two dates.
Earlier == IF DateLE(sp_start, sp_end) THEN sp_start ELSE sp_end
Later == IF DateLE(sp_start, sp_end) THEN sp_end ELSE sp_start

\* |end - start| in days, counted on the calendar.
DaysApart == Cardinality({ x \in SpanDates : DateLT(Earlier, x) /\ DateLE(x, Later) })

\* C11: for every pair of dates start and end, in either order, the daily series
\* built with an empty per-day mapping has exactly |end - start| + 1 points and
\* every value is 0.0.
C11_EmptySeriesAllZero ==
    (sp_pc = "series" /\ sp_bytes = <<>>) =>
        /\ Len(y_gb) = DaysApart + 1
        /\ \A i \in 1..Len(y_gb) : y_gb[i] = 0

\* C11 witness: end before start across the 29th of February, 2024-03-01 back to
\* 2024-02-28, gives three points, all zero.
C11_Witness ==
    /\ sp_pc = "series"
    /\ sp_bytes = <<>>
    /\ sp_start = Date(2024, 3, 1)
    /\ sp_end = Date(2024, 2, 28)
    /\ y_gb = <<0, 0, 0>>

\* C12: for every pair of dates the span holds every calendar date between the
\* earlier and the later date inclusive exactly once, in strictly increasing
\* order, and no date outside that range; the two arguments swapped give the same
\* span.
C12_SpanCoversRangeInOrder ==
    sp_pc \in { "spanned", "series" } =>
        /\ \A x \in SpanDates :
              (DateLE(Earlier, x) /\ DateLE(x, Later)) <=> (\E i \in 1..Len(days) : days[i] = x)
        /\ \A i \in 1..Len(days) : DateLE(Earlier, days[i]) /\ DateLE(days[i], Later)
        /\ \A i \in 1..(Len(days) - 1) : DateLT(days[i], days[i + 1])
        /\ days = build_date_span(sp_end, sp_start)

\* C12 witness: 2024-01-02 back to 2023-12-30 spans the four days from 2023-12-30
\* on, across the end of the year.
C12_Witness ==
    /\ sp_pc = "spanned"
    /\ sp_start = Date(2024, 1, 2)
    /\ sp_end = Date(2023, 12, 30)
    /\ days = << Date(2023, 12, 30), Date(2023, 12, 31), Date(2024, 1, 1), Date(2024, 1, 2) >>


(***************************************************************************)
(* parse_unit_value for numbers with unit suffixes and for other strings.  *)
(***************************************************************************)
\* The largest byte count the arguments stand for.
IntLimit == 2 * Pow10(9)

\* Numbers as float() accepts them, with their value num * 10^exp.
NumberTexts ==
    << [text |-> "10", num |-> 10, exp |-> 0],
       [text |-> "1.5", num |-> 15, exp |-> 0 - 1],
       [text |-> "500", num |-> 500, exp |-> 0],
       [text |-> "2", num |-> 2, exp |-> 0],
       [text |-> "0.5", num |-> 5, exp |-> 0 - 1],
       [text |-> "1.25", num |-> 125, exp |-> 0 - 2],
       [text |-> "-3", num |-> 0 - 3, exp |-> 0],
       [text |-> "+7", num |-> 7, exp |-> 0],
       [text |-> ".5", num |-> 5, exp |-> 0 - 1],
       [text |-> "2.", num |-> 2, exp |-> 0],
       [text |-> "1e3", num |-> 1, exp |-> 3],
       [text |-> "1E-3", num |-> 1, exp |-> 0 - 3],
       [text |-> "0", num |-> 0, exp |-> 0],
       [text |-> "1_0", num |-> 10, exp |-> 0],
       [text |-> "0.0004", num |-> 4, exp |-> 0 - 4],
       [text |-> "1.9", num |-> 19, exp |-> 0 - 1],
       [text |-> "-1.9", num |-> 0 - 19, exp |-> 0 - 1] >>

\* Strings that are no number, with or without one of the suffixes after them.
OtherTexts ==
    << "", "abc", "1.2.3", "--5", "1e", "_1", "1__0", "nan", "inf", "1e999", "0x10",
       "1 .5", "1t", "five" >>

\* The unit suffixes and the power of ten each stands for.
UnitSuffixes ==
    << <<"", 0>>, <<"b", 0>>, <<"B", 0>>, <<"kb", 3>>, <<"KB", 3>>, <<"Kb", 3>>,
       <<"mb", 6>>, <<"MB", 6>>, <<"gb", 9>>, <<"GB", 9>>, <<"gB", 9>> >>

\* Whether num * 10^exp is a byte count within IntLimit.
Fits(num, exp) == num = 0 \/ exp <= 0 \/ (exp <= 9 /\ Abs(num) <= IntLimit \div Pow10(exp))

\* The argument pre + text + gap + suffix + post.
UnitInput(isnum, n, u, pre, gap, post) ==
    [ v      |-> JStr(pre \o (IF isnum THEN NumberTexts[n].text ELSE OtherTexts[n])
                          \o gap \o UnitSuffixes[u][1] \o post),
      number |-> isnum,
      num    |-> IF isnum THEN NumberTexts[n].num ELSE 0,
      exp    |-> IF isnum THEN NumberTexts[n].exp ELSE 0,
      power  |-> UnitSuffixes[u][2] ]

UnitInit ==
    /\ ReqIdle /\ CandIdle /\ CycleIdle /\ FnIdleExcept("unit")
    /\ \E u \in 1..Len(UnitSuffixes), pre \in { "", " " }, gap \in { "", " " },
          post \in { "", "  " } :
          \/ \E n \in 1..Len(NumberTexts) :
                /\ Fits(NumberTexts[n].num, NumberTexts[n].exp + UnitSuffixes[u][2])
                /\ pu_in = Some(UnitInput(TRUE, n, u, pre, gap, post))
          \/ \E n \in 1..Len(OtherTexts) :
                pu_in = Some(UnitInput(FALSE, n, u, pre, gap, post))
    /\ pu_pc = "input"
    /\ pu_result = None

\* pv = parse_unit_value(v)                                      (bot.py 864, 886)
ParseUnit ==
    /\ pu_pc = "input"
    /\ pu_result' = Some(parse_unit_value(pu_in[1].v))
    /\ pu_pc' = "parsed"
    /\ UNCHANGED <<pu_in, not_unit_vars>>

UnitNext == ParseUnit

SpecUnit == UnitInit /\ [][UnitNext]_vars

MaxItems == 3

\* Items of a traffic response, each with the day it is dated (or "" when it
\* carries no date the code reads) and the bytes it reports for that day.
ItemPool == <<
    [ item  |-> JDict(<<<<"date", JStr("2024-01-01")>>, <<"rx_tx_bytes", JInt(5)>>>>),
      day   |-> "2024-01-01", bytes |-> 5 ],
    [ item  |-> JDict(<<<<"day", JStr("2024-01-01T10:00:00Z")>>, <<"traffic",
                JStr("1.5kb")>>>>),
      day   |-> "2024-01-01", bytes |-> 1500 ],
    [ item  |-> JDict(<<<<"grouping_key", JStr("2024-01-02 00:00:00")>>, <<"rx_bytes",
                JInt(3)>>, <<"tx_bytes", JStr("4")>>>>),
      day   |-> "2024-01-02", bytes |-> 7 ],
    [ item  |-> JDict(<<<<"date", JStr("2024-01-02")>>, <<"usage_gb", JFloat(5,
                0 - 1)>>>>),
      day   |-> "2024-01-02", bytes |-> 500000000 ],
    [ item  |-> JDict(<<<<"timestamp", JStr("2024-01-01")>>, <<"totals",
                JDict(<<<<"total_rx_tx", JInt(11)>>>>)>>>>),
      day   |-> "2024-01-01", bytes |-> 11 ],
    [ item  |-> JDict(<<<<"key", JStr("2024-01-02")>>, <<"stats", JDict(<<<<"bytes",
                JBool(TRUE)>>>>)>>>>),
      day   |-> "2024-01-02", bytes |-> 1 ],
    [ item  |-> JDict(<<<<"grouping", JDict(<<<<"date", JStr("2024-01-03")>>>>)>>,
                <<"traffic_mb", JInt(2)>>, <<"date", JNull>>>>),
      day   |-> "2024-01-03", bytes |-> 2000000 ],
    [ item  |-> JDict(<<<<"date", JStr("2024-01-03")>>, <<"bytes", JFloat(0 - 25,
                0 - 1)>>>>),
      day   |-> "2024-01-03", bytes |-> 0 - 2 ],
    [ item  |-> JDict(<<<<"bytes", JInt(9)>>>>),
      day   |-> "", bytes |-> 0 ],
    [ item  |-> JDict(<<<<"date", JStr("not-a-date")>>, <<"bytes", JInt(9)>>>>),
      day   |-> "", bytes |-> 0 ],
    [ item  |-> JStr("junk"),
      day   |-> "", bytes |-> 0 ],
    [ item  |-> JDict(<<<<"date", JStr("2024-01-01")>>, <<"rx_tx_bytes",
                JNonFinite("inf")>>>>),
      day   |-> "2024-01-01", bytes |-> 0 ]
>>

\* The entries whose byte field is not a finite number.
NonFiniteItems ==
    { i \in 1..Len(ItemPool) :
        /\ IsDict(ItemPool[i].item)
        /\ Get(ItemPool[i].item, "rx_tx_bytes").t = "nonfinite" }

\* Nodes of a subscriptions response.
NodePool == <<
    JDict(<<>>),
    JDict(<<<<"traffic_limit", JInt(100)>>, <<"traffic_per_period", JStr("42.5")>>,
          <<"current_period_start", JStr("2024-01-01")>>, <<"current_period_end",
          JStr("2024-02-01")>>, <<"plan", JStr("Pro")>>>>),
    JDict(<<<<"limit", JNull>>, <<"max_traffic", JStr("200")>>, <<"used",
          JInt(0)>>, <<"period_start", JStr("")>>, <<"start_date", JStr("2024-03-05")>>,
          <<"name", JInt(0)>>, <<"package_name", JStr("Basic")>>>>),
    JDict(<<<<"data_limit", JStr("unlimited")>>, <<"usage", JList(<<JInt(1)>>)>>,
          <<"to", JInt(1706745600)>>, <<"plan", JBool(FALSE)>>>>),
    JDict(<<<<"max", JBool(TRUE)>>, <<"data_used", JNonFinite("nan")>>, <<"from",
          JStr("2024-01-15")>>, <<"expires_at", JStr("2024-02-15")>>>>),
    JDict(<<<<"limit", JInt(0)>>, <<"traffic_used", JFloat(15, 0 - 1)>>,
          <<"end_date", JStr("")>>, <<"valid_until", JStr("2024-04-01")>>,
          <<"subscription_plan", JStr("Team")>>>>),
    JDict(<<<<"traffic_limit", JStr("unlimited")>>>>)
>>

\* Shapes whose items the code reads, and shapes where it finds no container.
TrafficShapes == { "data", "result_items", "split" }
EmptyShapes == { "bare", "other_key" }
SubsShapes ==
    { "subs_node", "subs_list", "subs_data", "subs_subscription", "subs_result",
      "subs_data_list", "subs_scalar" }

\* The items named by a sequence of pool positions.
ItemsOf(parts) == [ i \in 1..Len(parts) |-> ItemPool[parts[i]].item ]

\* A node with one more key.
WithKey(node, key, value) == JDict(node.v \o << <<key, value>> >>)

\* The decoded response of a shape over the pool entries parts.
TreeOf(shape, parts) ==
    CASE shape = "data" -> JDict(<< <<"data", JList(ItemsOf(parts))>> >>)
      [] shape = "result_items" ->
            JDict(<< <<"result", JDict(<< <<"items", JList(ItemsOf(parts))>> >>)>> >>)
      [] shape = "split" ->
            IF parts = <<>> THEN JDict(<< <<"records", JList(<<>>)>> >>)
            ELSE JDict(<< <<"records", JList(<<ItemPool[Head(parts)].item>>)>>,
                          <<"data", JList(ItemsOf(Tail(parts)))>> >>)
      [] shape = "bare" -> JList(ItemsOf(parts))
      [] shape = "other_key" -> JDict(<< <<"days", JList(ItemsOf(parts))>> >>)
      [] shape = "subs_node" -> NodePool[parts[1]]
      [] shape = "subs_list" -> JList(<<NodePool[parts[1]], NodePool[parts[2]]>>)
      [] shape = "subs_data" -> WithKey(NodePool[parts[1]], "data", NodePool[parts[2]])
      [] shape = "subs_subscription" ->
            WithKey(NodePool[parts[1]], "subscription", NodePool[parts[2]])
      [] shape = "subs_result" -> WithKey(NodePool[parts[1]], "result", NodePool[parts[2]])
      [] shape = "subs_data_list" ->
            WithKey(NodePool[parts[1]], "data", JList(<<NodePool[parts[2]]>>))
      [] OTHER -> JStr("ok")

ItemSequences == UNION { [1..n -> 1..Len(ItemPool)] : n \in 0..MaxItems }
ShortSequences == UNION { [1..n -> 1..Len(ItemPool)] : n \in 0..2 }
NodePairs == [1..2 -> 1..Len(NodePool)]

ExtractStart(shape, parts, tree) ==
    /\ ex_shape = shape
    /\ ex_parts = parts
    /\ ex_tree = tree
    /\ ex_pc = "ready"
    /\ ex_daily = Return(<<>>)
    /\ ex_info = InfoOf(<<>>)

ExtractInit ==
    /\ ReqIdle /\ CandIdle /\ CycleIdle /\ FnIdleExcept("extract")
    /\ \/ \E shape \in { "data", "split" }, parts \in ItemSequences :
              ExtractStart(shape, parts, TreeOf(shape, parts))
       \/ \E shape \in EmptyShapes \cup { "result_items" }, parts \in ShortSequences :
              ExtractStart(shape, parts, TreeOf(shape, parts))
       \/ \E shape \in SubsShapes, parts \in NodePairs :
              ExtractStart(shape, parts, TreeOf(shape, parts))

\* per_day_bytes = _daily_bytes_from_traffic(traffic)
ExtractDaily ==
    /\ ex_pc = "ready"
    /\ ex_daily' = daily_bytes_from_traffic(ex_tree)
    /\ ex_pc' = "daily"
    /\ UNCHANGED <<ex_shape, ex_parts, ex_tree, ex_info, not_extract_vars>>

\* subs_info = _extract_subs_info(subscriptions)
ExtractSubs ==
    /\ ex_pc = "daily"
    /\ ex_info' = extract_subs_info(ex_tree)
    /\ ex_pc' = "done"
    /\ UNCHANGED <<ex_shape, ex_parts, ex_tree, ex_daily, not_extract_vars>>

ExtractNext == ExtractDaily \/ ExtractSubs

SpecExtract == ExtractInit /\ [][ExtractNext]_vars


(***************************************************************************)
(* Claims about the extraction functions.                                  *)
(***************************************************************************)
\* The bytes the entries parts[i..] report for a day.
RECURSIVE SumBytes(_, _, _)
SumBytes(parts, i, day) ==
    IF i > Len(parts) THEN 0
    ELSE (IF ItemPool[parts[i]].day = day THEN ItemPool[parts[i]].bytes ELSE 0)
         + SumBytes(parts, i + 1, day)

\* The days the entries are dated.
DaysOf(parts) == { ItemPool[parts[i]].day : i \in 1..Len(parts) } \ { "" }

\* C13: per-day extraction, where it returns, gives each day the sum of the
\* bytes of every item dated that day and gives no other day; the sum does not
\* depend on the order of the items, so every order of the same items gives the
\* same result.
C13_DailySumsEveryItem ==
    (ex_pc \in { "daily", "done" } /\ ex_shape \in TrafficShapes /\ ~ex_daily.raised) =>
        /\ DOMAIN ex_daily.val = DaysOf(ex_parts)
        /\ \A day \in DaysOf(ex_parts) : ex_daily.val[day] = SumBytes(ex_parts, 1, day)

\* Three items dated the same day under three spellings, split over two
\* containers, summed into one entry.
C13_Witness ==
    /\ ex_pc = "daily"
    /\ ex_shape = "split"
    /\ ex_parts = <<1, 2, 5>>
    /\ ex_daily = Return([ day \in { "2024-01-01" } |-> 1516 ])

\* C14: per-day extraction returns a mapping for every decoded response, a
\* non-finite number in a byte field included.
C14_ExtractionTotal ==
    ex_pc \in { "daily", "done" } => ~ex_daily.raised

\* The candidate nodes of a response as it was put together: the response
\* itself, then its data / subscription / result child, a sequence standing for
\* its first element.
ClaimedNodes ==
    CASE ex_shape = "subs_node" -> <<ex_tree>>
      [] ex_shape = "subs_list" -> <<NodePool[ex_parts[1]]>>
      [] ex_shape \in { "subs_data", "subs_subscription", "subs_result", "subs_data_list" } ->
            <<ex_tree, NodePool[ex_parts[2]]>>
      [] OTHER -> <<>>

\* Whether nodes[j] holds, under keys[k], a value other than null.
Holds(nodes, keys, j, k) ==
    Has(nodes[j], keys[k]) /\ Get(nodes[j], keys[k]).t # "null"

\* The first present and non-null value, probing nodes in order and, within a
\* node, keys in order; None when there is none.
FirstPresent(nodes, keys) ==
    IF \E j \in 1..Len(nodes), k \in 1..Len(keys) : Holds(nodes, keys, j, k)
    THEN LET j == CHOOSE j \in 1..Len(nodes) :
                      /\ \E k \in 1..Len(keys) : Holds(nodes, keys, j, k)
                      /\ \A i \in 1..(j - 1), k \in 1..Len(keys) : ~Holds(nodes, keys, i, k)
             k == CHOOSE k \in 1..Len(keys) :
                      /\ Holds(nodes, keys, j, k)
                      /\ \A h \in 1..(k - 1) : ~Holds(nodes, keys, j, h)
         IN  Some(Get(nodes[j], keys[k]))
    ELSE None

\* A numeric field: coerced to a number, the raw value kept when that fails.
FirstPresentNumber(nodes, keys) ==
    IF FirstPresent(nodes, keys) = None THEN None
    ELSE Some(FloatOrRaw(FirstPresent(nodes, keys)[1]))

\* A text field: kept as the string.
FirstPresentText(nodes, keys) ==
    IF FirstPresent(nodes, keys) = None THEN None
    ELSE Some(PyStr(FirstPresent(nodes, keys)[1]))

\* C17: snapshot extraction resolves each of the five fields independently to
\* the first present and non-null value over the candidate nodes in order and
\* the key spellings in order; numeric fields coerced, the raw value kept when
\* coercion fails; date fields and the plan kept as the string.
C17_FieldsFirstPresent ==
    (ex_pc = "done" /\ ex_shape \in SubsShapes) =>
        /\ ex_info.limit = FirstPresentNumber(ClaimedNodes, keys_limit)
        /\ ex_info.used = FirstPresentNumber(ClaimedNodes, keys_used)
        /\ ex_info.period_start = FirstPresentText(ClaimedNodes, keys_start)
        /\ ex_info.period_end = FirstPresentText(ClaimedNodes, keys_end)
        /\ ex_info.plan = FirstPresentText(ClaimedNodes, keys_plan)

\* The numeric fields alone are resolved as C17 says.
NumericFieldsFirstPresent ==
    (ex_pc = "done" /\ ex_shape \in SubsShapes) =>
        /\ ex_info.limit = FirstPresentNumber(ClaimedNodes, keys_limit)
        /\ ex_info.used = FirstPresentNumber(ClaimedNodes, keys_used)


\* Per-day extraction raises exactly on the responses that carry, in a place the
\* code reads, an item whose byte field is not a finite number.
RaisesOnlyOnNonFinite ==
    ex_pc \in { "daily", "done" } =>
        (ex_daily.raised <=>
            /\ ex_shape \in TrafficShapes
            /\ \E i \in 1..Len(ex_parts) : ex_parts[i] \in NonFiniteItems)


(***************************************************************************)
(* format_usage as a function of the two decoded responses.                *)
(***************************************************************************)
\* Traffic responses, each with the byte count of its explicit aggregate total
\* when that is a number, and with the byte counts of its itemized records when
\* it has an item list whose records all carry a count or none.
TrafficPool == <<
    [ tree  |-> JDict(<<>>),
      total |-> <<>>, items |-> <<>> ],
    [ tree  |-> JDict(<<<<"metadata", JDict(<<<<"totals", JDict(<<<<"total_rx_tx",
                JInt(2000000000)>>>>)>>>>)>>>>),
      total |-> <<2000000000>>, items |-> <<>> ],
    [ tree  |-> JDict(<<<<"metadata", JDict(<<<<"totals", JDict(<<<<"total_rx_tx",
                JInt(1230000000)>>>>)>>>>)>>, <<"data", JList(<<JDict(<<<<"rx_tx_bytes",
                JInt(500000000)>>>>)>>)>>>>),
      total |-> <<1230000000>>, items |-> <<<<500000000>>>> ],
    [ tree  |-> JDict(<<<<"data", JList(<<JDict(<<<<"rx_tx_bytes", JInt(500000000)>>>>),
                JDict(<<<<"rx_tx_bytes", JStr("250000000")>>>>), JStr("junk"),
                JDict(<<<<"other", JInt(1)>>>>)>>)>>>>),
      total |-> <<>>, items |-> <<<<500000000, 250000000, 0>>>> ],
    [ tree  |-> JDict(<<<<"metadata", JNull>>, <<"data", JList(<<JDict(<<<<"rx_tx_bytes",
                JInt(10000000)>>>>)>>)>>>>),
      total |-> <<>>, items |-> <<<<10000000>>>> ],
    [ tree  |-> JDict(<<<<"metadata", JDict(<<<<"totals", JDict(<<<<"total_rx_tx",
                JStr("2000000000")>>>>)>>>>)>>, <<"data",
                JList(<<JDict(<<<<"rx_tx_bytes", JInt(30000000)>>>>)>>)>>>>),
      total |-> <<>>, items |-> <<<<30000000>>>> ],
    [ tree  |-> JDict(<<<<"data", JList(<<JDict(<<<<"rx_tx_bytes", JNull>>>>)>>)>>>>),
      total |-> <<>>, items |-> <<>> ],
    [ tree  |-> JList(<<>>),
      total |-> <<>>, items |-> <<>> ],
    [ tree  |-> JDict(<<<<"metadata", JDict(<<<<"totals", JDict(<<<<"total_rx_tx",
                JInt(0)>>>>)>>>>)>>, <<"data", JList(<<JDict(<<<<"rx_tx_bytes",
                JInt(40000000)>>>>)>>)>>>>),
      total |-> <<0>>, items |-> <<<<40000000>>>> ]
>>

TimeframeLabels == { None, Some("2024-03-01 -> 2024-03-05") }
ProxyTypeLabels == { None, Some("residential_proxies") }
FormatClocks == { DateTime(Date(2024, 3, 5), 43200), DateTime(Date(2024, 12, 31), 86399) }

\* The subscriptions response of the state.
FormatSubscriptions == IF fm_shape = "subs_none" THEN JNull ELSE TreeOf(fm_shape, fm_parts)

FormatInit ==
    /\ ReqIdle /\ CandIdle /\ CycleIdle /\ FnIdleExcept("format")
    /\ fm_shape \in SubsShapes \cup { "subs_none" }
    /\ fm_parts \in NodePairs
    /\ fm_traffic \in 1..Len(TrafficPool)
    /\ \E label \in TimeframeLabels, proxy_type \in ProxyTypeLabels, now \in FormatClocks :
          fm_args = [timeframe_label |-> label, proxy_type |-> proxy_type, now |-> now]
    /\ fm_pc = "ready"
    /\ fm_total = JNull
    /\ fm_report = ""

\* text = format_usage(subs, traffic, timeframe_label=..., proxy_type=..., tz=None)
FormatUsage ==
    /\ fm_pc = "ready"
    /\ fm_total' = total_used_gb(TrafficPool[fm_traffic].tree)
    /\ fm_report' = format_usage(FormatSubscriptions, TrafficPool[fm_traffic].tree,
                                 fm_args.timeframe_label, fm_args.proxy_type, fm_args.now)
    /\ fm_pc' = "done"
    /\ UNCHANGED <<fm_shape, fm_parts, fm_traffic, fm_args, not_format_vars>>

FormatNext == FormatUsage

SpecFormat == FormatInit /\ [][FormatNext]_vars

(***************************************************************************)
(* Claims about the report text.                                           *)
(***************************************************************************)
\* The lines of the report.
ReportLines == Split(fm_report, "\n")

\* Whether the report has a line that starts with a prefix.
HasLine(prefix) ==
    \E i \in 1..Len(ReportLines) : Prefix(ReportLines[i], Len(prefix)) = prefix

\* The fields snapshot extraction resolves from the subscriptions response.
FormatInfo == extract_subs_info(FormatSubscriptions)

\* A field that resolved to a finite number.
IsFigure(field) == field # None /\ field[1].t = "float"

\* A limit resolves by some accepted spelling; a used figure resolves by some
\* accepted spelling or as the aggregate total of the traffic response.
LimitResolves == IsFigure(FormatInfo.limit)
UsedResolves == IsFigure(FormatInfo.used) \/ fm_total.t = "float"

CouldNotDetermine == "Couldn't determine usage from API response."

\* C15: the report always carries a usage outcome: both figures resolve, and it
\* shows used of limit and the remainder; one resolves, and it shows that one;
\* neither resolves to a number, and it is the could-not-determine message.
C15_AlwaysUsageOutcome ==
    fm_pc = "done" =>
        /\ (UsedResolves /\ LimitResolves) => HasLine("Usage: ") /\ HasLine("Remaining: ")
        /\ (UsedResolves /\ ~LimitResolves) => HasLine("Used: ")
        /\ (~UsedResolves /\ LimitResolves) => HasLine("Limit: ")
        /\ (~UsedResolves /\ ~LimitResolves) => fm_report = CouldNotDetermine

\* The sum of a sequence of byte counts.
RECURSIVE SumOf(_)
SumOf(counts) == IF counts = <<>> THEN 0 ELSE Head(counts) + SumOf(Tail(counts))

\* Whether a figure is a byte count divided by 1e9.
IsGbOf(figure, bytes) == figure.t = "float" /\ figure.v = FloatOf(bytes, 0 - 9).v

OnlyTitleAndTimestamp ==
    fm_report = "Decodo Usage\n\nAs of: " \o FormatDateTime(fm_args.now) \o " UTC"

\* No report consists of only the title and the timestamp.
NeverOnlyTitleAndTimestamp == fm_pc = "done" => ~OnlyTitleAndTimestamp


(***************************************************************************)
(* Claims about the reply of a request.                                    *)
(***************************************************************************)
\* The failure message of a fetch that ended in the exception e.
IsFailureMessage(m, e) ==
    /\ m.kind = "error"
    /\ e.kind = "http" => m.text \in { "Error fetching usage: HTTP " \o ToString(e.status),
                                      "Error fetching chart: HTTP " \o ToString(e.status) }

\* C20: every authorized request ends with exactly one reply: a failure message
\* (with the HTTP status when the error has one) when the fetch ended in an
\* error, and a report or a chart, not an error message, when the fetch
\* succeeded, whatever could be extracted from the response.
C20_OneReplyPerRequest ==
    (authorized /\ pc = "done") =>
        /\ Len(replies) = 1
        /\ exc # None => IsFailureMessage(replies[1], exc[1])
        /\ exc = None => replies[1].kind \in { "report", "photo" }

\* Every authorized request that is over has sent exactly one reply, and a failed
\* fetch is answered with the failure message.
OneReplyAndFailuresReported ==
    (authorized /\ pc = "done") =>
        /\ Len(replies) = 1
        /\ exc # None => IsFailureMessage(replies[1], exc[1])


(***************************************************************************)
(* Two requests of different chats in one event loop.  The request that is *)
(* running holds the request variables; the other is suspended at an await *)
(* and parked.  The environment and the clock are the process's, read by    *)
(* both; everything else a handler touches is local to its call.           *)
(***************************************************************************)
\* The local state of a handler call.
RequestOf(h, a, p, st, cl, w, cs, i, l, le, tr, e, nu, hl, o, rs) ==
    [ handler |-> h, authorized |-> a, pc |-> p, settings |-> st, client |-> cl,
      window |-> w, candidates |-> cs, idx |-> i, log |-> l, last_err |-> le,
      traffic |-> tr, exc |-> e, now_utc |-> nu, hour_log |-> hl, out |-> o,
      replies |-> rs ]

\* A handler call that has not started.
Fresh(h, a) ==
    RequestOf(h, a, "start", None, "none", None, <<>>, 0, <<>>, None, None, None, None,
              <<>>, None, <<>>)

\* The request that is running.
Running ==
    RequestOf(handler, authorized, pc, settings, client, window, candidates, idx, log,
              last_err, traffic, exc, now_utc, hour_log, out, replies)

PairEnvs ==
    { e \in Envs : e.tz = "UTC" /\ e.end = None /\ e.service = Some("foo")
                   /\ e.start = None }

PairInit ==
    /\ CandIdle /\ CycleIdle /\ FnIdleExcept("pair")
    /\ env \in PairEnvs
    /\ clock = DateTime(Date(2024, 3, 5), 43200)
    /\ handler \in { "usage", "chart" }
    /\ authorized \in BOOLEAN
    /\ pc = "start"
    /\ settings = None /\ client = "none" /\ window = None /\ candidates = <<>>
    /\ idx = 0 /\ log = <<>> /\ last_err = None /\ traffic = None /\ exc = None
    /\ now_utc = None /\ hour_log = <<>> /\ out = None /\ replies = <<>>
    /\ \E h \in { "usage", "chart" }, a \in BOOLEAN : parked = Fresh(h, a)
    /\ turn = 1

\* The running request with the other request's candidate position.
ResumeSharingPosition(r, position) == [r EXCEPT !.idx = position]

\* The request that resumes: its own local state, whatever the other request did
\* meanwhile.
Resume(r, position) == r

\* The running handler is suspended at an await and the event loop resumes the
\* other one.
Switch ==
    /\ turn \in { 1, 2 }
    /\ pc # "call"
    /\ parked' = Running
    /\ turn' = 3 - turn
    /\ \E r \in { Resume(parked, idx) } :
          /\ handler' = r.handler /\ authorized' = r.authorized /\ pc' = r.pc
          /\ settings' = r.settings /\ client' = r.client /\ window' = r.window
          /\ candidates' = r.candidates /\ idx' = r.idx /\ log' = r.log
          /\ last_err' = r.last_err /\ traffic' = r.traffic /\ exc' = r.exc
          /\ now_utc' = r.now_utc /\ hour_log' = r.hour_log /\ out' = r.out
          /\ replies' = r.replies
    /\ UNCHANGED <<env, clock, cand_vars, cy_vars, span_vars, unit_vars, extract_vars,
                   format_vars, item_vars>>

\* The upstream makes a request go on to another candidate at most MaxRejections
\* times.
MaxRejections == 1

PairQueryHttpError == QueryHttpError /\ (pc' = "call" => Len(log) <= MaxRejections)

PairQueryException == QueryException /\ (pc' = "call" => Len(log) <= MaxRejections)

PairNext ==
    \/ Deny
    \/ Start
    \/ IssueQuery
    \/ QueryOk
    \/ PairQueryHttpError
    \/ PairQueryException
    \/ CloseClient
    \/ Answer
    \/ Switch

SpecPair == PairInit /\ [][PairNext]_vars


(***************************************************************************)
(* Claims about concurrent requests.                                       *)
(***************************************************************************)
\* What a request running alone does with the process's environment and clock:
\* its settings, its candidate list and its query window.
AloneSettings == Settings(env)
AloneCandidates == build_proxy_type_candidates(SettingsServiceType(env.service))
AloneWindow(h) ==
    IF h = "usage" /\ WindowMode(AloneSettings) = "month" THEN None
    ELSE QueryWindow(AloneSettings, clock)

\* Its query for a candidate.
AloneCall(pt, win, month) ==
    IF win = None THEN Payload(pt, month[1], month[2], None)
    ELSE Payload(pt, win[1], win[2], Some("day"))

\* The text of its reply to a fetch that ended in a failed query.
AloneErrorText(h, result) ==
    (IF h = "usage" THEN "Error fetching usage: "
     ELSE IF result = "exception" THEN "Error generating chart: "
     ELSE "Error fetching chart: ")
    \o (IF result = "exception" THEN "exception"
        ELSE "HTTP " \o SubSeq(result, 5, Len(result)))

\* Its reply, given the upstream's answers to its queries (r.log), the response
\* of the successful one (r.traffic) and what the clock read after the fetch
\* (r.now_utc).
AloneReply(r) ==
    IF ~r.authorized THEN Message("denied", "Not authorized.", None, None)
    ELSE IF r.log[Len(r.log)].result # "ok"
    THEN Message("error", AloneErrorText(r.handler, r.log[Len(r.log)].result), None, None)
    ELSE IF r.handler = "usage"
    THEN Message("report", "", Some(UsageLabel(AloneSettings, r.now_utc[1])), None)
    ELSE IF r.traffic[1].body = "nonfinite"
    THEN Message("error", "Error generating chart: OverflowError", None, None)
    ELSE PhotoMessage(ChartSpan(AloneSettings, r.now_utc[1]))

\* A request has issued the queries of the candidates in order, each after the
\* one before it was rejected, each for the window.
QueriesAsAlone(r, cands, win, month) ==
    \A i \in 1..Len(r.log) :
        /\ r.log[i].type_ = cands[i]
        /\ r.log[i].payload = AloneCall(cands[i], win, month)
        /\ i < Len(r.log) => r.log[i].result \in { "http400", "exception" }

\* A request has done, so far, what it does alone: its queries are those of its
\* own candidate list and window, and its reply is the one reply of AloneReply.
AsAlone(r) ==
    /\ QueriesAsAlone(r, AloneCandidates, AloneWindow(r.handler), CurrentMonthWindow(clock))
    /\ r.pc = "done" => r.replies = <<AloneReply(r)>>
    /\ r.pc # "done" => r.replies = <<>>

C25_NowInsideCycle ==
    (cy_pc = "window" /\ cy_parsed # None) =>
        /\ cy_start # None /\ cy_end # None
        /\ DateLE(cy_start[1], cy_now)
        /\ DateLT(cy_now, cy_end[1])
        /\ cy_window = << Some(FormatDate(cy_start[1]) \o " 00:00:00"),
                          Some(FormatDateTime(DateTime(cy_now, cy_time))) >>
        /\ DateTimeLE(DateTime(cy_start[1], 0), DateTime(cy_now, cy_time))

\* C25 witness: anchor day 31 seen on 2024-03-30 at 23:59:59, the last second
\* before the cycle 2024-02-29 .. 2024-03-31 ends: the window still ends at "now".
C25_Witness ==
    /\ cy_pc = "window"
    /\ cy_anchor = "2024-01-31"
    /\ cy_now = Date(2024, 3, 30) /\ cy_time = 86399
    /\ cy_start = Some(Date(2024, 2, 29))
    /\ cy_end = Some(Date(2024, 3, 31))
    /\ cy_window = << Some("2024-02-29 00:00:00"), Some("2024-03-30 23:59:59") >>

\* C26: consecutive cycles tile the calendar: with s = cycleStart(anchor, now) and
\* e = cycleEnd(anchor, s), cycleStart(anchor, e) = e and
\* cycleStart(anchor, e minus one day) = s, for every parseable anchor and "now".
C26_CyclesTile ==
    (cy_pc = "neighbours" /\ cy_parsed # None) =>
        /\ cy_at_end = cy_end
        /\ cy_before_end = cy_start

\* C26 witness: anchor day 31 across the short February of 2023: the cycle
\* 2023-01-31 .. 2023-02-28 is followed by the cycle starting 2023-02-28.
C26_Witness ==
    /\ cy_pc = "neighbours"
    /\ cy_anchor = "2024-01-31"
    /\ cy_now = Date(2023, 2, 10)
    /\ cy_start = Some(Date(2023, 1, 31))
    /\ cy_end = Some(Date(2023, 2, 28))
    /\ cy_at_end = Some(Date(2023, 2, 28))
    /\ cy_before_end = Some(Date(2023, 1, 31))


(***************************************************************************)
(* Claims about the lifetime of the HTTP client.                           *)
(***************************************************************************)
\* The get_traffic calls a request has made on its client after closing it.
CallsAfterClose == IF client = "closed" THEN Len(hour_log) ELSE 0

\* C24: within one report request the client is closed on every path (success,
\* exhaustion of the candidates, fatal error) before the reply, it is closed once
\* (a closed client is never open again and no call is pending on it), and no
\* get_traffic call is made on it after it has been closed, the hour-grouped
\* fallback queries of the chart included.
C24_ClosedOnceNoLateQuery ==
    /\ (authorized /\ pc \in { "answer", "done" }) => client = "closed"
    /\ client = "closed" => InFlight = {}
    /\ CallsAfterClose = 0

\* The part of C24 about closing: the client of an authorized request is closed
\* before the reply on every path, with no call pending, and an unauthorized
\* request opens none.
ClosedOnEveryPath ==
    /\ (authorized /\ pc \in { "answer", "done" }) => client = "closed"
    /\ client = "closed" => InFlight = {}
    /\ ~authorized => client = "none"


(***************************************************************************)
(* Claims about the values of the daily series.                            *)
(***************************************************************************)
\* The per-day mapping's entry for the i-th date of the span, 0 when it has none.
EntryOf(i) == IF FormatDate(days[i]) \in DOMAIN sp_bytes THEN sp_bytes[FormatDate(days[i])] ELSE 0

\* C23: no value of the daily series is negative: for each date of the span it is
\* max(0, bytes / 1e9) with bytes the per-day mapping's entry for that date, or 0
\* when the date has no entry, also when the mapping holds a negative byte count.
\* (Values are kept as numerators over 1e9.)
C23_SeriesNeverNegative ==
    sp_pc = "series" =>
        /\ Len(y_gb) = Len(days)
        /\ \A i \in 1..Len(y_gb) :
              /\ y_gb[i] >= 0
              /\ y_gb[i] = (IF EntryOf(i) >= 0 THEN EntryOf(i) ELSE 0)

\* C23 witness: the span 2024-02-28 .. 2024-03-01 over a mapping that holds -5
\* bytes for 2024-02-29 gives three points, all zero.
C23_Witness ==
    /\ sp_pc = "series"
    /\ sp_start = Date(2024, 2, 28)
    /\ sp_end = Date(2024, 3, 1)
    /\ sp_bytes # <<>>
    /\ sp_bytes["2024-02-29"] = 0 - 5
    /\ y_gb = <<0, 0, 0>>


(***************************************************************************)
(* One list entry of a traffic response: the byte rules of extract_bytes   *)
(* and the date rules of extract_date_str, between two dated entries.      *)
(***************************************************************************)
\* The date part of an item, with the day the item is dated ("" when no date
\* token resolves or the token is no calendar day).
DateFields ==
    << [ pairs |-> <<<<"date", JStr("2024-01-01")>>>>,
         day |-> "2024-01-01" ],
       [ pairs |-> <<>>,
         day |-> "" ],
       [ pairs |-> <<<<"grouping", JDict(<<<<"day", JStr("2024-01-02T10:00:00Z")>>>>)>>>>,
         day |-> "2024-01-02" ],
       [ pairs |-> <<<<"grouping", JDict(<<<<"inner", JDict(<<<<"date",
          JStr("2024-01-02")>>>>)>>>>)>>>>,
         day |-> "" ],
       [ pairs |-> <<<<"date", JStr("not-a-date")>>>>,
         day |-> "" ],
       [ pairs |-> <<<<"date", JStr("2023-02-30")>>>>,
         day |-> "" ],
       [ pairs |-> <<<<"date", JStr("")>>, <<"key", JStr("2024-01-02 00:00:00")>>>>,
         day |-> "2024-01-02" ],
       [ pairs |-> <<<<"timestamp", JInt(20240101)>>>>,
         day |-> "" ],
       [ pairs |-> <<<<"date", JStr("0999-01-01")>>>>,
         day |-> "0999-01-01" ],
       [ pairs |-> <<<<"groupKey", JStr("2024-01-01")>>>>,
         day |-> "" ] >>

\* The combined-bytes part: none, a number, a unit string, a string that is no
\* number, zero.
DirectFields ==
    << <<>>,
       <<<<"rx_tx_bytes", JInt(5)>>>>,
       <<<<"bytes", JStr("2KB")>>>>,
       <<<<"trafficBytes", JStr("junk")>>>>,
       <<<<"rxTx", JInt(0)>>>> >>

\* The receive/transmit part: none, a number and a digit string, a number and a
\* string that is no number.
PairFields ==
    << <<>>,
       <<<<"rx_bytes", JInt(3)>>, <<"txBytes", JStr("4")>>>>,
       <<<<"rx_bytes", JInt(3)>>, <<"tx_bytes", JStr("x")>>>> >>

\* The GB/MB part.
UnitFields ==
    << <<>>,
       <<<<"usage_gb", JFloat(5, 0 - 1)>>>>,
       <<<<"traffic_mb", JInt(2)>>>> >>

\* The traffic/usage part.
GenericFields ==
    << <<>>,
       <<<<"traffic", JStr("1.5kb")>>>>,
       <<<<"usage", JStr("junk")>>>> >>

\* The totals part: none, a number, a unit string, a receive/transmit pair.
TotalsFields ==
    << <<>>,
       <<<<"totals", JDict(<<<<"total_rx_tx", JInt(11)>>>>)>>>>,
       <<<<"totals", JDict(<<<<"rx_tx_bytes", JStr("5KB")>>>>)>>>>,
       <<<<"totals", JDict(<<<<"rxBytes", JInt(1)>>, <<"tx_bytes", JInt(2)>>>>)>>>> >>

\* The nested part: none, one level, two levels, a zero beside a unit string.
NestedFields ==
    << <<>>,
       <<<<"stats", JDict(<<<<"bytes", JInt(9)>>>>)>>>>,
       <<<<"value", JDict(<<<<"metrics", JDict(<<<<"bytes", JInt(9)>>>>)>>>>)>>>>,
       <<<<"metrics", JDict(<<<<"bytes", JInt(0)>>>>)>>, <<"stat", JDict(<<<<"usage",
       JStr("3b")>>>>)>>>> >>

\* List entries that are no mapping.
OtherEntries ==
    << JStr("2024-01-01"), JInt(5), JNull,
       JList(<<JDict(<<<<"date", JStr("2024-01-01")>>, <<"bytes", JInt(9)>>>>)>>) >>

\* The dated items before and after the item looked at.
BaseBefore == JDict(<<<<"date", JStr("2024-01-01")>>, <<"bytes", JInt(5)>>>>)
BaseAfter == JDict(<<<<"day", JStr("2024-01-02")>>, <<"rx_tx", JInt(7)>>>>)

\* The choices of one part from each pool.
ItemChoices ==
    { <<d, a, b, u, g, t, n>> :
        d \in 1..Len(DateFields), a \in 1..Len(DirectFields), b \in 1..Len(PairFields),
        u \in 1..Len(UnitFields), g \in 1..Len(GenericFields),
        t \in 1..Len(TotalsFields), n \in 1..Len(NestedFields) }

\* The entry made of the chosen parts.
ItemOf(c) ==
    JDict(DateFields[c[1]].pairs \o DirectFields[c[2]] \o PairFields[c[3]]
          \o UnitFields[c[4]] \o GenericFields[c[5]] \o TotalsFields[c[6]]
          \o NestedFields[c[7]])

\* The response holding the entry between the two dated ones.
ResponseWith(entry) == JDict(<< <<"data", JList(<<BaseBefore, entry, BaseAfter>>)>> >>)

ItemStart(c, entry) ==
    /\ it_choice = c
    /\ it_item = entry
    /\ it_padded \in BOOLEAN
    /\ it_pc = "ready"
    /\ it_daily = Return(<<>>)

ItemInit ==
    /\ ReqIdle /\ CandIdle /\ CycleIdle /\ FnIdleExcept("item")
    /\ \/ \E c \in ItemChoices : ItemStart(c, ItemOf(c))
       \/ \E i \in 1..Len(OtherEntries) : ItemStart(<<i>>, OtherEntries[i])

\* per_day_bytes = _daily_bytes_from_traffic(traffic)
ExtractEntry ==
    /\ it_pc = "ready"
    /\ it_daily' = daily_bytes_from_traffic_on(ResponseWith(it_item), it_padded)
    /\ it_pc' = "done"
    /\ UNCHANGED <<it_choice, it_item, it_padded, not_item_vars>>

ItemNext == ExtractEntry

SpecItem == ItemInit /\ [][ItemNext]_vars


(***************************************************************************)
(* Claims about the rules applied to one list entry.                       *)
(***************************************************************************)
\* The sum of the values of a mapping with string keys.
RECURSIVE SumOver(_, _)
SumOver(f, keys) ==
    IF keys = {} THEN 0
    ELSE LET k == CHOOSE x \in keys : TRUE IN f[k] + SumOver(f, keys \ { k })

\* What the two dated entries around the entry give alone.
BaseDaily == [ k \in { "2024-01-01", "2024-01-02" } |-> IF k = "2024-01-01" THEN 5 ELSE 7 ]

\* The bytes the entry contributed to the mapping.
EntryBytes == SumOver(it_daily.val, DOMAIN it_daily.val) - SumOver(BaseDaily, DOMAIN BaseDaily)

\* Rule 5 as the claim has it: the totals sub-object re-probed with rule 1 (a
\* number or a unit-suffixed string under a combined-bytes key), then rule 2.
ClaimedTotals(totals) ==
    IF IsDict(totals)
    THEN IF FirstUnitValue(totals, <<"rx_tx_bytes", "rxTxBytes", "rx_tx", "rxTx", "bytes",
                                     "total_rx_tx">>, 1) # None
         THEN FirstUnitValue(totals, <<"rx_tx_bytes", "rxTxBytes", "rx_tx", "rxTx", "bytes",
                                       "total_rx_tx">>, 1)
         ELSE RxTxOf(totals)
    ELSE None

RECURSIVE ClaimedBytes(_)

\* Rule 6: the nested value / metrics / stat / stats sub-objects, each put through
\* the same rules; one that gives zero is passed over.
RECURSIVE ClaimedNested(_, _, _)
ClaimedNested(it, keys, i) ==
    IF i > Len(keys) THEN None
    ELSE IF IsDict(Get(it, keys[i]))
         THEN NestedOrElse(ClaimedBytes(Get(it, keys[i])), ClaimedNested(it, keys, i + 1))
         ELSE ClaimedNested(it, keys, i + 1)

\* The first rule that resolves, in the order of the claim; zero when none does.
ClaimedBytes(it) ==
    OrElse(FirstUnitValue(it, <<"rx_tx_bytes", "rxTxBytes", "rx_tx", "rxTx",
                                "traffic_bytes", "trafficBytes", "bytes">>, 1),
    OrElse(RxTxOf(it),
    OrElse(FirstScaled(it, <<"traffic_gb", "trafficGB", "usage_gb", "usageGB">>, 9, 1),
    OrElse(FirstScaled(it, <<"traffic_mb", "trafficMB", "usage_mb", "usageMB">>, 6, 1),
    OrElse(FirstUnitValue(it, <<"traffic", "usage">>, 1),
    OrElse(ClaimedTotals(Get(it, "totals")),
    OrElse(ClaimedNested(it, <<"value", "metrics", "stat", "stats">>, 1),
           Return(0))))))))

\* The entry is a mapping dated a calendar day.
Dated == Len(it_choice) = 7 /\ DateFields[it_choice[1]].day # ""

\* C21: the byte count of a list item is that of the first rule that resolves, in
\* the order direct combined-bytes field, receive + transmit, GB / MB fields,
\* traffic / usage field, the totals sub-object re-probed with the first two rules
\* (numbers and unit-suffixed strings alike), nested sub-objects; zero when no
\* rule resolves.
C21_FirstRuleThatResolves ==
    (it_pc = "done" /\ Dated) =>
        /\ ~it_daily.raised
        /\ EntryBytes = ClaimedBytes(it_item).val

\* C21 without the entries whose totals sub-object holds a unit-suffixed string.
FirstRuleExceptTotalsStrings ==
    (it_pc = "done" /\ Dated /\ it_choice[6] # 3) =>
        /\ ~it_daily.raised
        /\ EntryBytes = ClaimedBytes(it_item).val

\* A key of the mapping is a calendar day written YYYY-MM-DD.
ValidDayKey(key) == Len(key) = 10 /\ StrpDate(key) # None

\* C22: a list item that is no mapping, or for which no date token resolves
\* (directly or one level under a grouping object), or whose token is no calendar
\* day, is skipped and changes no day's total; every key of the mapping is a
\* valid YYYY-MM-DD calendar day.
C22_SkippedAndKeysValid ==
    it_pc = "done" =>
        /\ ~it_daily.raised
        /\ ~Dated => it_daily.val = BaseDaily
        /\ \A key \in DOMAIN it_daily.val : ValidDayKey(key)

\* The skipping part of C22.
SkippedItemsChangeNothing ==
    (it_pc = "done" /\ ~Dated) => it_daily = Return(BaseDaily)

\* The key part of C22 for days of the year 1000 and later, and for earlier years
\* where strftime pads the year.
KeysValidFromYear1000 ==
    (it_pc = "done" /\ (it_padded \/ (Dated => it_choice[1] # 9))) =>
        \A key \in DOMAIN it_daily.val : ValidDayKey(key)

====
